---- MODULE Spec2Model ----
(***************************************************************************)
(* Unified transaction ledger and point-in-time state reconstruction of    *)
(* the chainequity backend (backend/app/services/transaction_service.py),  *)
(* with the cap-table query and the share-class edit that consume it, and  *)
(* the snapshot service with the handlers that feed it.                    *)
(***************************************************************************)
EXTENDS Integers, Sequences, FiniteSets, TLC

VARIABLES
    ledger,         \* unified_transactions table: rows in insertion (id) order
    rc,             \* the reconstruct_at_slot call in progress
    memo,           \* the last TokenState returned and what it was computed from
    share_classes,  \* share_classes table: id -> priority, preference_multiple
    fstate,         \* replay loop: the TokenState being folded
    fprev,          \* replay loop: the TokenState before the last entry
    ftx,            \* replay loop: the last entry folded
    fcount,         \* replay loop: number of entries folded
    current_slot,   \* the slot the Solana client reports
    wallets,        \* wallets table: address -> status
    current_balances, \* current_balances table: wallet -> balance
    snapshots,      \* captable_snapshots_v2 table: rows in insertion order
    now,            \* datetime.utcnow(), in seconds
    vesting_schedules, \* vesting_schedules table: rows in insertion order, id = index
    share_positions, \* share_positions table: (wallet, share_class_id) -> row
    token,          \* the tokens row of token 1
    funding_round,  \* the funding_rounds row of round 1 with its investments
    pending,        \* per session: the rows flushed and not yet committed
    next_id,        \* next value of the unified_transactions id sequence
    calc            \* a call of a calculator service: its arguments and result

vars == << ledger, rc, memo, share_classes, fstate, fprev, ftx, fcount,
           current_slot, wallets, current_balances, snapshots,
           now, vesting_schedules, share_positions, token, funding_round,
           pending, next_id, calc >>

coreVars == << ledger, rc, memo, share_classes >>
foldVars == << fstate, fprev, ftx, fcount >>
dbVars == << current_slot, wallets, current_balances, snapshots >>
equityVars == << now, vesting_schedules, share_positions, token, funding_round >>
txnVars == << pending, next_id >>
calcVars == << calc >>

\* No wallet, balance, snapshot, schedule, position or round row; the chain
\* at its first slot and the wall clock at 0; no session with rows to commit
\* and the id sequence at its start; no calculator call.
DbIdle ==
    /\ current_slot = 1
    /\ wallets = << >>
    /\ current_balances = << >>
    /\ snapshots = << >>
    /\ now = 0
    /\ vesting_schedules = << >>
    /\ share_positions = << >>
    /\ token = [total_supply |-> 0]
    /\ funding_round = [status |-> "none"]
    /\ pending = << >>
    /\ next_id = 1
    /\ calc = [op |-> "none"]

(***************************************************************************)
(* Encoding of Python values.                                              *)
(***************************************************************************)

\* NULL of a nullable integer column (amount, share_class_id, priority, ...).
None == -1

\* NULL of a nullable wallet column.
NullWallet == "null"

\* Python truth value of an Optional[int]: None and 0 are falsy.
Truthy(x) == x /= None /\ x /= 0

\* Python truth value of an Optional[str] wallet.
TruthyWallet(w) == w /= NullWallet

\* Python `x or default` on an Optional[int].
OrDefault(x, default) == IF Truthy(x) THEN x ELSE default

\* dict.get(key, default)
DictGet(dict, key, default) == IF key \in DOMAIN dict THEN dict[key] ELSE default

\* dict[key] = value
DictPut(dict, key, value) ==
    [k \in (DOMAIN dict) \cup {key} |-> IF k = key THEN value ELSE dict[k]]

\* Sum of dict[k] over the keys in `keys`.
RECURSIVE SumOver(_, _)
SumOver(dict, keys) ==
    IF keys = {} THEN 0
    ELSE LET k == CHOOSE x \in keys : TRUE
         IN dict[k] + SumOver(dict, keys \ {k})

\* sum(dict.values())
SumValues(dict) == SumOver(dict, DOMAIN dict)

(***************************************************************************)
(* IEEE-754 binary64 arithmetic as used by the stock split: Python's       *)
(* `numerator / denominator` is the correctly rounded double of the        *)
(* quotient, `value * ratio` the correctly rounded double of the product,  *)
(* and int() truncates toward zero.  A positive double is a record         *)
(* [e, m]: m is the 53-bit significand, most significant bit first, and    *)
(* the value is the sum of m[i] * 2^(e - (i - 1)).                         *)
(***************************************************************************)

\* Significand width of a binary64 (sys.float_info.mant_dig).
MantDig == 53

RECURSIVE Pow2(_)
Pow2(k) == IF k = 0 THEN 1 ELSE 2 * Pow2(k - 1)

\* Number of binary digits of c >= 0 (int.bit_length).
RECURSIVE BitLength(_)
BitLength(c) == IF c = 0 THEN 0 ELSE 1 + BitLength(c \div 2)

\* Largest e >= 0 with d * 2^e <= n, for n >= d > 0.
RECURSIVE ExpAbove(_, _)
ExpAbove(n, d) == IF 2 * d <= n THEN 1 + ExpAbove(n, 2 * d) ELSE 0

\* Smallest k >= 0 with n * 2^k >= d, for n, d > 0.
RECURSIVE ExpBelow(_, _)
ExpBelow(n, d) == IF n < d THEN 1 + ExpBelow(2 * n, d) ELSE 0

\* Round-to-nearest, ties-to-even, of a bit string of at least MantDig
\* digits whose leading digit is 1 and has weight 2^e.
RoundNearestEven(digits, e) ==
    LET kept   == [i \in 1..MantDig |-> digits[i]]
        guard  == IF Len(digits) > MantDig THEN digits[MantDig + 1] ELSE 0
        sticky == \E i \in (MantDig + 2)..Len(digits) : digits[i] = 1
        up     == guard = 1 /\ (sticky \/ kept[MantDig] = 1)
        zeros  == {i \in 1..MantDig : kept[i] = 0}
    IN IF ~up THEN [e |-> e, m |-> kept]
       ELSE IF zeros = {}
            THEN [e |-> e + 1, m |-> [i \in 1..MantDig |-> IF i = 1 THEN 1 ELSE 0]]
            ELSE LET j == CHOOSE z \in zeros : \A y \in zeros : y <= z
                 IN [e |-> e,
                     m |-> [i \in 1..MantDig |->
                              IF i < j THEN kept[i] ELSE IF i = j THEN 1 ELSE 0]]

\* The 52 digits after the leading one are handled as four limbs of
\* LimbBits digits each; Limb is 2^LimbBits.
LimbBits == 13
Limb == 8192

\* Digit j (0 is the most significant) of a limb.
LimbDigit(limb, j) == (limb \div Pow2(LimbBits - 1 - j)) % 2

\* Long division: the next k quotient limbs of rem / D0 (rem < D0),
\* followed by the remainder left.
RECURSIVE DivLimbs(_, _, _)
DivLimbs(rem, D0, k) ==
    IF k = 0 THEN << rem >>
    ELSE << (rem * Limb) \div D0 >> \o DivLimbs((rem * Limb) % D0, D0, k - 1)

\* numerator / denominator for integers n > 0, d > 0 (float true division).
FloatDiv(n, d) ==
    LET e      == IF n >= d THEN ExpAbove(n, d) ELSE -ExpBelow(n, d)
        N0     == IF e >= 0 THEN n ELSE n * Pow2(-e)
        D0     == IF e >= 0 THEN d * Pow2(e) ELSE d
        L      == DivLimbs(N0 - D0, D0, 4)
        guard  == IF 2 * L[5] >= D0 THEN 1 ELSE 0
        sticky == IF 2 * L[5] - guard * D0 /= 0 THEN 1 ELSE 0
        digits == [i \in 1..(MantDig + 2) |->
                     IF i = 1 THEN 1
                     ELSE IF i <= MantDig
                          THEN LimbDigit(L[((i - 2) \div LimbBits) + 1],
                                         (i - 2) % LimbBits)
                          ELSE IF i = MantDig + 1 THEN guard ELSE sticky]
    IN RoundNearestEven(digits, e)

\* Value of the k significand digits m[lo], ..., m[lo + k - 1].
RECURSIVE SliceValue(_, _, _)
SliceValue(m, lo, k) ==
    IF k = 0 THEN 0 ELSE 2 * SliceValue(m, lo, k - 1) + m[lo + k - 1]

\* Limbs of value * m, from limb j down to limb 1 and then the leading
\* digit; acc holds the limbs already produced below limb j.
RECURSIVE MulLimbs(_, _, _, _, _)
MulLimbs(value, m, j, carry, acc) ==
    IF j = 0 THEN << value * m[1] + carry >> \o acc
    ELSE LET t == value * SliceValue(m, 2 + LimbBits * (j - 1), LimbBits) + carry
         IN MulLimbs(value, m, j - 1, t \div Limb, << t % Limb >> \o acc)

\* value * ratio for an integer value > 0 and a positive double.
FloatMulInt(value, ratio) ==
    LET P      == MulLimbs(value, ratio.m, 4, 0, << >>)
        b      == BitLength(P[1])
        digits == [i \in 1..(b + MantDig - 1) |->
                     IF i <= b THEN (P[1] \div Pow2(b - i)) % 2
                     ELSE LimbDigit(P[((i - b - 1) \div LimbBits) + 2],
                                    (i - b - 1) % LimbBits)]
    IN RoundNearestEven(digits, ratio.e + b - 1)

\* Value of the first k binary digits of m.
RECURSIVE BinValue(_, _)
BinValue(m, k) == IF k = 0 THEN 0 ELSE 2 * BinValue(m, k - 1) + m[k]

\* int(f) for a positive double of magnitude below 2^MantDig.
FloatTrunc(f) == IF f.e < 0 THEN 0 ELSE BinValue(f.m, f.e + 1)

\* int(value * (numerator / denominator)), numerator >= 0, denominator > 0.
ScaleByRatio(value, numerator, denominator) ==
    IF value = 0 \/ numerator = 0 THEN 0
    ELSE LET ratio == FloatDiv(numerator, denominator)
             mag   == IF value < 0 THEN -value ELSE value
             res   == FloatTrunc(FloatMulInt(mag, ratio))
         IN IF value < 0 THEN -res ELSE res

(***************************************************************************)
(* Ledger entries (UnifiedTransaction rows) and the reconstructed state.   *)
(* A preference multiple is a Python float; the model draws whole-number   *)
(* multiples only, which a float holds exactly.                            *)
(***************************************************************************)

\* TransactionType: the closed enumeration of entry kinds.
TransactionType ==
    { "approval", "revocation", "mint", "transfer", "burn",
      "vesting_schedule_create", "vesting_release", "vesting_terminate",
      "share_grant", "proposal_create", "vote", "proposal_execute",
      "dividend_round_create", "dividend_payment", "stock_split",
      "symbol_change", "pause", "funding_round_create",
      "funding_round_close", "investment", "convertible_create",
      "convertible_convert", "valuation_update" }

\* A UnifiedTransaction row with every nullable column NULL and the id not
\* yet assigned (it is the autoincrement key, set by the flush); `data` is a
\* JSON object, a function from its keys, and the empty one stands for both
\* NULL and {} (both are falsy and both read every key as absent).
UnifiedTransaction(token_id, slot, tx_type) ==
    [ id |-> None, token_id |-> token_id, slot |-> slot, tx_type |-> tx_type,
      wallet |-> NullWallet, wallet_to |-> NullWallet,
      amount |-> None, amount_secondary |-> None,
      share_class_id |-> None, priority |-> None,
      preference_multiple |-> None,
      reference_id |-> None, data |-> << >> ]

\* PositionState(...) as constructed for a key not yet in state.positions.
PositionState(tx) ==
    [ wallet |-> tx.wallet,
      share_class_id |-> OrDefault(tx.share_class_id, 0),
      shares |-> 0,
      cost_basis |-> 0,
      priority |-> OrDefault(tx.priority, 99),
      preference_multiple |-> OrDefault(tx.preference_multiple, 1) ]

\* VestingState(...) as constructed by a vesting_schedule_create entry.
VestingState(tx) ==
    [ schedule_id |-> tx.reference_id,
      beneficiary |-> tx.wallet,
      total_amount |-> OrDefault(tx.amount, 0),
      released_amount |-> 0,
      share_class_id |-> tx.share_class_id,
      priority |-> OrDefault(tx.priority, 99),
      preference_multiple |-> OrDefault(tx.preference_multiple, 1),
      start_time |-> DictGet(tx.data, "start_time", None),
      duration_seconds |-> DictGet(tx.data, "duration_seconds", None),
      cliff_seconds |-> DictGet(tx.data, "cliff_seconds", None),
      vesting_type |-> DictGet(tx.data, "vesting_type", None),
      is_terminated |-> FALSE ]

\* TokenState(slot=target_slot): the empty state replay starts from.
TokenState(slot) ==
    [ slot |-> slot,
      approved_wallets |-> {},
      balances |-> << >>,
      positions |-> << >>,
      vesting_schedules |-> << >>,
      is_paused |-> FALSE,
      total_supply |-> 0 ]

(***************************************************************************)
(* _apply_transaction, one operator per case of the match statement.       *)
(***************************************************************************)

\* state.positions[key].shares += amount; .cost_basis += cost, creating the
\* position first when the key is new.
AddToPosition(positions, tx, cost) ==
    LET key  == << tx.wallet, tx.share_class_id >>
        base == IF key \in DOMAIN positions THEN positions[key]
                ELSE PositionState(tx)
    IN DictPut(positions, key,
               [base EXCEPT !.shares = @ + tx.amount,
                            !.cost_basis = @ + cost])

\* state.balances[wallet] = state.balances.get(wallet, 0) + delta
AddToBalance(balances, wallet, delta) ==
    DictPut(balances, wallet, DictGet(balances, wallet, 0) + delta)

ApplyApproval(state, tx) ==
    IF TruthyWallet(tx.wallet)
    THEN [state EXCEPT !.approved_wallets = @ \cup {tx.wallet}]
    ELSE state

ApplyRevocation(state, tx) ==
    IF TruthyWallet(tx.wallet)
    THEN [state EXCEPT !.approved_wallets = @ \ {tx.wallet}]
    ELSE state

\* case MINT | SHARE_GRANT
ApplyMint(state, tx) ==
    IF TruthyWallet(tx.wallet) /\ Truthy(tx.amount)
    THEN [state EXCEPT
            !.positions = AddToPosition(@, tx, OrDefault(tx.amount_secondary, 0)),
            !.balances = AddToBalance(@, tx.wallet, tx.amount),
            !.total_supply = @ + tx.amount]
    ELSE state

\* Variant that credits the receiver without debiting the sender.
ApplyTransfer_credit(state, tx) ==
    IF TruthyWallet(tx.wallet) /\ TruthyWallet(tx.wallet_to) /\ Truthy(tx.amount)
    THEN [state EXCEPT
            !.balances = AddToBalance(@, tx.wallet_to, tx.amount),
            !.total_supply = @ + tx.amount]
    ELSE state

ApplyTransfer(state, tx) ==
    IF TruthyWallet(tx.wallet) /\ TruthyWallet(tx.wallet_to) /\ Truthy(tx.amount)
    THEN [state EXCEPT
            !.balances = AddToBalance(AddToBalance(@, tx.wallet, -tx.amount),
                                      tx.wallet_to, tx.amount)]
    ELSE state

ApplyBurn(state, tx) ==
    IF TruthyWallet(tx.wallet) /\ Truthy(tx.amount)
    THEN [state EXCEPT
            !.balances = AddToBalance(@, tx.wallet, -tx.amount),
            !.total_supply = @ - tx.amount]
    ELSE state

ApplyVestingScheduleCreate(state, tx) ==
    IF Truthy(tx.reference_id) /\ TruthyWallet(tx.wallet)
    THEN [state EXCEPT
            !.vesting_schedules = DictPut(@, tx.reference_id, VestingState(tx))]
    ELSE state

\* Variant that also adds amount_secondary to the cost basis, as the
\* mint case does.
ApplyVestingRelease_cost(state, tx) ==
    IF TruthyWallet(tx.wallet) /\ Truthy(tx.amount)
    THEN [state EXCEPT
            !.positions = AddToPosition(@, tx, OrDefault(tx.amount_secondary, 0)),
            !.balances = AddToBalance(@, tx.wallet, tx.amount),
            !.total_supply = @ + tx.amount,
            !.vesting_schedules =
                IF Truthy(tx.reference_id) /\ tx.reference_id \in DOMAIN @
                THEN [@ EXCEPT ![tx.reference_id].released_amount = @ + tx.amount]
                ELSE @]
    ELSE state

ApplyVestingRelease(state, tx) ==
    IF TruthyWallet(tx.wallet) /\ Truthy(tx.amount)
    THEN [state EXCEPT
            !.positions = AddToPosition(@, tx, 0),
            !.balances = AddToBalance(@, tx.wallet, tx.amount),
            !.total_supply = @ + tx.amount,
            !.vesting_schedules =
                IF Truthy(tx.reference_id) /\ tx.reference_id \in DOMAIN @
                THEN [@ EXCEPT ![tx.reference_id].released_amount = @ + tx.amount]
                ELSE @]
    ELSE state

\* Variant that marks the whole schedule released when it is terminated.
ApplyVestingTerminate_released(state, tx) ==
    IF Truthy(tx.reference_id) /\ tx.reference_id \in DOMAIN state.vesting_schedules
    THEN [state EXCEPT
            !.vesting_schedules[tx.reference_id].is_terminated = TRUE,
            !.vesting_schedules[tx.reference_id].released_amount =
                state.vesting_schedules[tx.reference_id].total_amount]
    ELSE state

\* Variant that forfeits the unreleased part of the schedule.
ApplyVestingTerminate_forfeit(state, tx) ==
    IF Truthy(tx.reference_id) /\ tx.reference_id \in DOMAIN state.vesting_schedules
    THEN [state EXCEPT
            !.vesting_schedules[tx.reference_id].is_terminated = TRUE,
            !.vesting_schedules[tx.reference_id].total_amount =
                state.vesting_schedules[tx.reference_id].released_amount]
    ELSE state

ApplyVestingTerminate(state, tx) ==
    IF Truthy(tx.reference_id) /\ tx.reference_id \in DOMAIN state.vesting_schedules
    THEN [state EXCEPT !.vesting_schedules[tx.reference_id].is_terminated = TRUE]
    ELSE state

ApplyStockSplit(state, tx) ==
    IF DOMAIN tx.data /= {}
    THEN LET numerator   == DictGet(tx.data, "numerator", 1)
             denominator == DictGet(tx.data, "denominator", 1)
         IN IF denominator > 0
            THEN [state EXCEPT
                    !.balances = [w \in DOMAIN @ |->
                        ScaleByRatio(@[w], numerator, denominator)],
                    !.positions = [k \in DOMAIN @ |->
                        [@[k] EXCEPT !.shares =
                            ScaleByRatio(@, numerator, denominator)]],
                    !.vesting_schedules = [v \in DOMAIN @ |->
                        [@[v] EXCEPT
                            !.total_amount =
                                ScaleByRatio(@, numerator, denominator),
                            !.released_amount =
                                ScaleByRatio(@, numerator, denominator)]],
                    !.total_supply = ScaleByRatio(@, numerator, denominator)]
            ELSE state
    ELSE state

ApplyPause(state, tx) ==
    IF DOMAIN tx.data /= {}
    THEN [state EXCEPT !.is_paused = DictGet(tx.data, "paused", FALSE)]
    ELSE state

ApplyConvertibleConvert(state, tx) ==
    IF TruthyWallet(tx.wallet) /\ Truthy(tx.amount)
    THEN [state EXCEPT
            !.positions = AddToPosition(@, tx, OrDefault(tx.amount_secondary, 0)),
            !.balances = AddToBalance(@, tx.wallet, tx.amount),
            !.total_supply = @ + tx.amount]
    ELSE state

ApplyInvestment(state, tx) ==
    IF TruthyWallet(tx.wallet) /\ Truthy(tx.amount)
    THEN [state EXCEPT
            !.positions = AddToPosition(@, tx, OrDefault(tx.amount_secondary, 0)),
            !.balances = AddToBalance(@, tx.wallet, tx.amount),
            !.total_supply = @ + tx.amount]
    ELSE state

\* Variant that folds a dividend payment as a credit of shares.
ApplyTransaction_dividend(state, tx) ==
    CASE tx.tx_type = "approval" -> ApplyApproval(state, tx)
      [] tx.tx_type = "revocation" -> ApplyRevocation(state, tx)
      [] tx.tx_type \in {"mint", "share_grant", "dividend_payment"} -> ApplyMint(state, tx)
      [] tx.tx_type = "transfer" -> ApplyTransfer(state, tx)
      [] tx.tx_type = "burn" -> ApplyBurn(state, tx)
      [] tx.tx_type = "vesting_schedule_create" -> ApplyVestingScheduleCreate(state, tx)
      [] tx.tx_type = "vesting_release" -> ApplyVestingRelease(state, tx)
      [] tx.tx_type = "vesting_terminate" -> ApplyVestingTerminate(state, tx)
      [] tx.tx_type = "stock_split" -> ApplyStockSplit(state, tx)
      [] tx.tx_type = "pause" -> ApplyPause(state, tx)
      [] tx.tx_type = "convertible_convert" -> ApplyConvertibleConvert(state, tx)
      [] tx.tx_type = "investment" -> ApplyInvestment(state, tx)
      [] OTHER -> state

\* TransactionService._apply_transaction: the state after folding tx.
\* The method never raises on the entries drawn here; kinds without a case
\* leave the state as it is.
ApplyTransaction(state, tx) ==
    CASE tx.tx_type = "approval" -> ApplyApproval(state, tx)
      [] tx.tx_type = "revocation" -> ApplyRevocation(state, tx)
      [] tx.tx_type \in {"mint", "share_grant"} -> ApplyMint(state, tx)
      [] tx.tx_type = "transfer" -> ApplyTransfer(state, tx)
      [] tx.tx_type = "burn" -> ApplyBurn(state, tx)
      [] tx.tx_type = "vesting_schedule_create" -> ApplyVestingScheduleCreate(state, tx)
      [] tx.tx_type = "vesting_release" -> ApplyVestingRelease(state, tx)
      [] tx.tx_type = "vesting_terminate" -> ApplyVestingTerminate(state, tx)
      [] tx.tx_type = "stock_split" -> ApplyStockSplit(state, tx)
      [] tx.tx_type = "pause" -> ApplyPause(state, tx)
      [] tx.tx_type = "convertible_convert" -> ApplyConvertibleConvert(state, tx)
      [] tx.tx_type = "investment" -> ApplyInvestment(state, tx)
      [] OTHER -> state

\* The replay loop: for tx in transactions: self._apply_transaction(state, tx)
RECURSIVE Replay(_, _)
Replay(state, transactions) ==
    IF transactions = << >> THEN state
    ELSE Replay(ApplyTransaction(state, Head(transactions)), Tail(transactions))

(***************************************************************************)
(* Bounds and inputs.                                                      *)
(***************************************************************************)

\* Number of entries folded by one run of the replay loop.
MaxFold == 3

\* Placeholder for "no entry folded yet".
NoTx == UnifiedTransaction(0, 0, "none")

\* An entry that credits shares: wallet, class, amount, cost, captured terms.
Issue(kind, wallet, class, amount, cost, priority, multiple) ==
    [UnifiedTransaction(1, 1, kind) EXCEPT
        !.wallet = wallet, !.share_class_id = class, !.amount = amount,
        !.amount_secondary = cost, !.priority = priority,
        !.preference_multiple = multiple]

\* Governance, dividend, funding-round and valuation entries: kinds
\* without a case in _apply_transaction.
BookkeepingKinds ==
    { "proposal_create", "vote", "proposal_execute", "dividend_round_create",
      "dividend_payment", "funding_round_create", "funding_round_close",
      "valuation_update" }

\* Entries the replay loop is run on.
FoldInputs ==
    { Issue(k, "A", 1, 2, 3, 1, 2) :
        k \in {"mint", "share_grant", "investment", "convertible_convert"} }
    \cup
    { [Issue("vesting_release", "A", 1, 2, 3, 1, 2) EXCEPT !.reference_id = 1],
      Issue("mint", "B", 2, 1, None, 0, 0),
      [UnifiedTransaction(1, 1, "transfer") EXCEPT
          !.wallet = "A", !.wallet_to = "B", !.amount = 1],
      [UnifiedTransaction(1, 1, "burn") EXCEPT !.wallet = "A", !.amount = 1],
      [UnifiedTransaction(1, 1, "vesting_schedule_create") EXCEPT
          !.wallet = "A", !.amount = 4, !.reference_id = 1,
          !.share_class_id = 1, !.priority = 1, !.preference_multiple = 2],
      [UnifiedTransaction(1, 1, "vesting_terminate") EXCEPT !.reference_id = 1],
      [UnifiedTransaction(1, 1, "stock_split") EXCEPT
          !.data = [numerator |-> 1, denominator |-> 2]],
      [UnifiedTransaction(1, 1, "stock_split") EXCEPT
          !.data = [numerator |-> 3, denominator |-> 1]],
      [UnifiedTransaction(1, 1, "approval") EXCEPT !.wallet = "A"],
      [UnifiedTransaction(1, 1, "revocation") EXCEPT !.wallet = "A"],
      [UnifiedTransaction(1, 1, "pause") EXCEPT !.data = [paused |-> TRUE]],
      [UnifiedTransaction(1, 1, "transfer") EXCEPT
          !.wallet = "A", !.wallet_to = "A", !.amount = 1],
      [UnifiedTransaction(1, 1, "transfer") EXCEPT
          !.wallet = "B", !.wallet_to = "C", !.amount = 2],
      [UnifiedTransaction(1, 1, "vesting_schedule_create") EXCEPT
          !.wallet = "B", !.amount = 3, !.reference_id = 2] }
    \cup
    { [UnifiedTransaction(1, 1, k) EXCEPT
          !.wallet = "A", !.wallet_to = "B", !.amount = 2,
          !.amount_secondary = 3, !.share_class_id = 1, !.reference_id = 1,
          !.data = [paused |-> TRUE, numerator |-> 3, denominator |-> 1]] :
        k \in BookkeepingKinds }

(***************************************************************************)
(* FoldSpec: the replay loop of reconstruct_at_slot,                       *)
(*     for tx in transactions: self._apply_transaction(state, tx)          *)
(* run on an arbitrary entry sequence.                                     *)
(***************************************************************************)

CoreIdle ==
    /\ ledger = << >>
    /\ rc = [pc |-> "idle"]
    /\ memo = [set |-> FALSE]
    /\ share_classes = << >>
    /\ DbIdle

FoldInit ==
    /\ CoreIdle
    /\ fstate = TokenState(1)
    /\ fprev = TokenState(1)
    /\ ftx = NoTx
    /\ fcount = 0

FoldStep(tx) ==
    /\ fcount < MaxFold
    /\ fprev' = fstate
    /\ fstate' = ApplyTransaction(fstate, tx)
    /\ ftx' = tx
    /\ fcount' = fcount + 1
    /\ UNCHANGED << coreVars, dbVars, equityVars, txnVars, calcVars >>

FoldNext == \E tx \in FoldInputs : FoldStep(tx)

FoldSpec == FoldInit /\ [][FoldNext]_vars

(***************************************************************************)
(* Properties of one fold step (FoldSpec).                                 *)
(***************************************************************************)

\* The five kinds that credit shares to a holder.
IssueKinds ==
    {"mint", "share_grant", "vesting_release", "investment", "convertible_convert"}

\* The last entry folded credited shares (its guard was passed).
IssueFolded ==
    /\ ftx.tx_type \in IssueKinds
    /\ TruthyWallet(ftx.wallet)
    /\ Truthy(ftx.amount)

\* Shares and cost basis of a position, 0 when the key is absent.
SharesAt(state, key) ==
    IF key \in DOMAIN state.positions THEN state.positions[key].shares ELSE 0

CostAt(state, key) ==
    IF key \in DOMAIN state.positions THEN state.positions[key].cost_basis ELSE 0

\* C1: after every fold step, total_supply equals the sum of all balances.
C1_Conservation == fstate.total_supply = SumValues(fstate.balances)

\* C7: a position created by an entry carries that entry's priority and
\* preference multiple, whatever the recorded values are (0 included).
C7_CapturedTerms ==
    LET key == << ftx.wallet, ftx.share_class_id >>
    IN (/\ IssueFolded
        /\ key \notin DOMAIN fprev.positions
        /\ ftx.priority /= None
        /\ ftx.preference_multiple /= None)
       => /\ fstate.positions[key].priority = ftx.priority
          /\ fstate.positions[key].preference_multiple = ftx.preference_multiple

\* What folding an issuing entry adds to shares, balance and supply (amount)
\* and to the cost basis (costDelta).
IssueEffect(costDelta) ==
    LET key == << ftx.wallet, ftx.share_class_id >>
    IN /\ SharesAt(fstate, key) = SharesAt(fprev, key) + ftx.amount
       /\ CostAt(fstate, key) = CostAt(fprev, key) + costDelta
       /\ DictGet(fstate.balances, ftx.wallet, 0)
            = DictGet(fprev.balances, ftx.wallet, 0) + ftx.amount
       /\ fstate.total_supply = fprev.total_supply + ftx.amount

\* C10 as stated: all five issuing kinds add amount to shares, balance and
\* supply and amount_secondary to the cost basis.
C10_SameEffectAllKinds ==
    IssueFolded => IssueEffect(OrDefault(ftx.amount_secondary, 0))

\* C10 amended: mint, share_grant, investment and convertible_convert add
\* amount_secondary to the cost basis; vesting_release adds the shares but
\* leaves the cost basis unchanged.
C10_IssueEffect ==
    IssueFolded =>
        IssueEffect(IF ftx.tx_type = "vesting_release" THEN 0
                    ELSE OrDefault(ftx.amount_secondary, 0))

\* C10 witness: a vesting_release carrying a cost was folded onto a position
\* that already had a cost basis.
C10_ReleaseFolded ==
    /\ IssueFolded
    /\ ftx.tx_type = "vesting_release"
    /\ Truthy(ftx.amount_secondary)
    /\ CostAt(fprev, << ftx.wallet, ftx.share_class_id >>) > 0

\* released_amount of schedule v in a state.
ReleasedAt(state, v) == state.vesting_schedules[v].released_amount

\* The last entry folded is a valid stock_split.
SplitFolded ==
    /\ ftx.tx_type = "stock_split"
    /\ DOMAIN ftx.data # {}
    /\ DictGet(ftx.data, "denominator", 1) > 0

\* C11: a schedule's released_amount is 0 right after its
\* vesting_schedule_create entry, grows by the amount of each vesting_release
\* entry that references it, is scaled by each stock split, and is changed
\* by no other entry.
C11_ReleasedTracksReleases ==
    \A v \in DOMAIN fstate.vesting_schedules :
        IF ftx.tx_type = "vesting_schedule_create" /\ ftx.reference_id = v
        THEN ReleasedAt(fstate, v) = 0
        ELSE /\ v \in DOMAIN fprev.vesting_schedules
             /\ ReleasedAt(fstate, v) =
                  IF ftx.tx_type = "vesting_release" /\ ftx.reference_id = v
                  THEN ReleasedAt(fprev, v) + ftx.amount
                  ELSE IF SplitFolded
                  THEN ScaleByRatio(ReleasedAt(fprev, v),
                                    DictGet(ftx.data, "numerator", 1),
                                    DictGet(ftx.data, "denominator", 1))
                  ELSE ReleasedAt(fprev, v)

\* A schedule with 2 shares released went through a 3:1 split and has 6.
C11_ReleasedThenSplit ==
    /\ SplitFolded
    /\ 1 \in DOMAIN fprev.vesting_schedules
    /\ ReleasedAt(fprev, 1) = 2
    /\ ReleasedAt(fstate, 1) = 6

\* Sum of the shares of a wallet's positions, over all share classes.
PositionShares(state, w) ==
    LET keys == { k \in DOMAIN state.positions : k[1] = w }
    IN SumValues([k \in keys |-> state.positions[k].shares])

\* C12: in every reconstructed state and for every wallet w, balances[w]
\* equals the sum of positions[(w, c)].shares over all share classes c.
C12_BalanceIsPositionSum ==
    \A w \in DOMAIN fstate.balances \cup { k[1] : k \in DOMAIN fstate.positions } :
        DictGet(fstate.balances, w, 0) = PositionShares(fstate, w)

\* The last entry folded is a transfer that passed its guard.
TransferFolded ==
    /\ ftx.tx_type = "transfer"
    /\ TruthyWallet(ftx.wallet)
    /\ TruthyWallet(ftx.wallet_to)
    /\ Truthy(ftx.amount)

BalanceAt(state, w) == DictGet(state.balances, w, 0)

\* C26: folding a transfer of amount a from f to t takes a from
\* balances[f] and adds a to balances[t] (nothing in sum when f = t), and
\* leaves total_supply, approved_wallets, vesting_schedules, is_paused and
\* every other wallet's balance unchanged.
C26_TransferFrame ==
    TransferFolded =>
        LET f == ftx.wallet
            t == ftx.wallet_to
            a == ftx.amount
        IN /\ f # t => /\ BalanceAt(fstate, f) = BalanceAt(fprev, f) - a
                       /\ BalanceAt(fstate, t) = BalanceAt(fprev, t) + a
           /\ f = t => BalanceAt(fstate, f) = BalanceAt(fprev, f)
           /\ \A w \in (DOMAIN fstate.balances \cup DOMAIN fprev.balances) \ {f, t} :
                  /\ w \in DOMAIN fstate.balances
                  /\ w \in DOMAIN fprev.balances
                  /\ fstate.balances[w] = fprev.balances[w]
           /\ fstate.total_supply = fprev.total_supply
           /\ fstate.approved_wallets = fprev.approved_wallets
           /\ fstate.vesting_schedules = fprev.vesting_schedules
           /\ fstate.is_paused = fprev.is_paused

\* Witness of C26: a transfer from B to C was folded while A held a
\* balance and a vesting schedule existed.
C26_TransferBesideOthers ==
    /\ TransferFolded
    /\ ftx.wallet = "B" /\ ftx.wallet_to = "C"
    /\ "A" \in DOMAIN fprev.balances
    /\ fprev.balances["A"] > 0
    /\ BalanceAt(fstate, "C") = 2

\* C27: folding a proposal_create, vote, proposal_execute, dividend,
\* funding-round create or close, or valuation_update entry leaves every
\* field of the state unchanged, whatever the entry carries.
C27_BookkeepingFrame ==
    ftx.tx_type \in BookkeepingKinds =>
        /\ fstate.slot = fprev.slot
        /\ fstate.approved_wallets = fprev.approved_wallets
        /\ fstate.balances = fprev.balances
        /\ fstate.positions = fprev.positions
        /\ fstate.vesting_schedules = fprev.vesting_schedules
        /\ fstate.is_paused = fprev.is_paused
        /\ fstate.total_supply = fprev.total_supply

\* Witness of C27: a dividend payment naming a holder, an amount and a
\* schedule was folded onto a state in which that holder has shares and
\* that schedule exists.
C27_DividendFolded ==
    /\ ftx.tx_type = "dividend_payment"
    /\ Truthy(ftx.amount)
    /\ ftx.wallet \in DOMAIN fprev.balances
    /\ ftx.reference_id \in DOMAIN fprev.vesting_schedules
    /\ fstate.total_supply > 0

\* The last entry folded is a vesting_terminate of an existing schedule.
TerminateFolded ==
    /\ ftx.tx_type = "vesting_terminate"
    /\ Truthy(ftx.reference_id)
    /\ ftx.reference_id \in DOMAIN fprev.vesting_schedules

\* C28: folding a vesting_terminate entry for an existing schedule sets
\* that schedule's is_terminated and changes nothing else: balances,
\* positions, total_supply, the schedule's total_amount and
\* released_amount and every other schedule stay as they were.
C28_TerminateFrame ==
    TerminateFolded =>
        LET v == ftx.reference_id
        IN /\ fstate.balances = fprev.balances
           /\ fstate.positions = fprev.positions
           /\ fstate.total_supply = fprev.total_supply
           /\ DOMAIN fstate.vesting_schedules = DOMAIN fprev.vesting_schedules
           /\ fstate.vesting_schedules[v].is_terminated
           /\ fstate.vesting_schedules[v].total_amount
                  = fprev.vesting_schedules[v].total_amount
           /\ fstate.vesting_schedules[v].released_amount
                  = fprev.vesting_schedules[v].released_amount
           /\ \A u \in DOMAIN fprev.vesting_schedules \ {v} :
                  fstate.vesting_schedules[u] = fprev.vesting_schedules[u]

\* Witness of C28: a schedule with released shares was terminated.
C28_ReleasedScheduleTerminated ==
    /\ TerminateFolded
    /\ ~ fprev.vesting_schedules[ftx.reference_id].is_terminated
    /\ fprev.vesting_schedules[ftx.reference_id].released_amount > 0
    /\ fprev.total_supply > 0

(***************************************************************************)
(* SplitSpec: one stock_split entry folded onto a state in which a holder  *)
(* has a balance, a position and a vesting schedule of a given size.       *)
(***************************************************************************)

\* Largest holding, numerator and denominator drawn.
MaxOld == 11
MaxNumerator == 15
MaxDenominator == 11

SplitOlds == (0..MaxOld) \cup {49}
SplitNumerators == 0..MaxNumerator
SplitDenominators == (0..MaxDenominator) \cup {49}

\* The state after a schedule of `old` shares was created for wallet A and
\* released in full.
HolderState(old) ==
    Replay(TokenState(1),
        << [UnifiedTransaction(1, 1, "vesting_schedule_create") EXCEPT
               !.wallet = "A", !.amount = old, !.reference_id = 1,
               !.share_class_id = 1],
           [UnifiedTransaction(1, 1, "vesting_release") EXCEPT
               !.wallet = "A", !.amount = old, !.reference_id = 1,
               !.share_class_id = 1] >>)

SplitInit ==
    /\ CoreIdle
    /\ fstate \in { HolderState(old) : old \in SplitOlds }
    /\ fprev = fstate
    /\ ftx = NoTx
    /\ fcount = 0

SplitStep(numerator, denominator) ==
    LET tx == [UnifiedTransaction(1, 1, "stock_split") EXCEPT
                  !.data = [numerator |-> numerator, denominator |-> denominator]]
    IN /\ fcount = 0
       /\ fprev' = fstate
       /\ fstate' = ApplyTransaction(fstate, tx)
       /\ ftx' = tx
       /\ fcount' = 1
       /\ UNCHANGED << coreVars, dbVars, equityVars, txnVars, calcVars >>

SplitNext ==
    \E n \in SplitNumerators, d \in SplitDenominators : SplitStep(n, d)

SplitSpec == SplitInit /\ [][SplitNext]_vars

\* floor(old * n / d) in exact integer arithmetic, for old >= 0.
ExactSplit(old, n, d) == (old * n) \div d

\* C9: after a split n:d with d > 0 every balance, position, vesting amount
\* and the total supply equal floor(old * n / d).
C9_SplitExact ==
    (ftx.tx_type = "stock_split" /\ ftx.data.denominator > 0) =>
        LET n == ftx.data.numerator
            d == ftx.data.denominator
        IN /\ \A w \in DOMAIN fprev.balances :
                fstate.balances[w] = ExactSplit(fprev.balances[w], n, d)
           /\ \A k \in DOMAIN fprev.positions :
                fstate.positions[k].shares
                    = ExactSplit(fprev.positions[k].shares, n, d)
           /\ \A v \in DOMAIN fprev.vesting_schedules :
                /\ fstate.vesting_schedules[v].total_amount
                    = ExactSplit(fprev.vesting_schedules[v].total_amount, n, d)
                /\ fstate.vesting_schedules[v].released_amount
                    = ExactSplit(fprev.vesting_schedules[v].released_amount, n, d)
           /\ fstate.total_supply = ExactSplit(fprev.total_supply, n, d)

(***************************************************************************)
(* Spec: the ledger with its two operations, record and                    *)
(* reconstruct_at_slot.  Requests run concurrently: entries may be         *)
(* recorded while a reconstruction is between its query and its return.    *)
(***************************************************************************)

\* Largest number of ledger rows, and largest slot drawn.
MaxLedger == 2
MaxSlot == 2

\* Slots entries are recorded at.
Slots == 1..MaxSlot

\* Entries recorded, before slot and id are set.
RecordInputs ==
    { Issue("share_grant", "A", 1, 1, 1, 1, 1),
      [UnifiedTransaction(1, 1, "stock_split") EXCEPT
          !.data = [numerator |-> 2, denominator |-> 1]],
      [UnifiedTransaction(1, 1, "mint") EXCEPT !.wallet = "B", !.share_class_id = 1],
      [Issue("vesting_release", "B", 1, 1, None, 1, 1) EXCEPT !.reference_id = 1],
      [UnifiedTransaction(2, 1, "approval") EXCEPT !.wallet = "A"] }

\* ORDER BY id only.
OrderKeyLess_id(r1, r2) == r1.id < r2.id

\* (slot, id) order of two rows: ORDER BY slot, id.
OrderKeyLess(r1, r2) ==
    \/ r1.slot < r2.slot
    \/ r1.slot = r2.slot /\ r1.id < r2.id

\* A set of rows as a sequence in ascending order.
RECURSIVE OrderBy(_)
OrderBy(rows) ==
    IF rows = {} THEN << >>
    ELSE LET first == CHOOSE r \in rows :
                         \A o \in rows \ {r} : OrderKeyLess(r, o)
         IN << first >> \o OrderBy(rows \ {first})

\* Variant that selects the rows of every token.
SelectTransactions_all(rows, token_id, target_slot) ==
    OrderBy({ rows[k] : k \in
        { j \in 1..Len(rows) : rows[j].slot <= target_slot } })

\* select(UnifiedTransaction).where(token_id == token_id, slot <= target_slot)
\*     .order_by(slot, id)
SelectTransactions(rows, token_id, target_slot) ==
    OrderBy({ rows[k] : k \in
        { j \in 1..Len(rows) :
            rows[j].token_id = token_id /\ rows[j].slot <= target_slot } })

\* A state object shared between calls: the new call starts from the state
\* the previous call returned.
NewState_shared(target_slot) ==
    IF memo.set THEN [memo.state EXCEPT !.slot = target_slot]
    ELSE TokenState(target_slot)

\* state = TokenState(slot=target_slot) of a new call.
NewState(target_slot) == TokenState(target_slot)

Init ==
    /\ ledger = << >>
    /\ rc = [pc |-> "idle"]
    /\ memo = [set |-> FALSE]
    /\ share_classes = << >>
    /\ DbIdle
    /\ fstate = TokenState(1)
    /\ fprev = TokenState(1)
    /\ ftx = NoTx
    /\ fcount = 0

\* Variant that overwrites the last row when it has the same kind and
\* wallet (an upsert in place of an insert).
Record_upsert(tx, slot) ==
    /\ Len(ledger) < MaxLedger
    /\ ledger' =
         IF /\ ledger # << >>
            /\ ledger[Len(ledger)].tx_type = tx.tx_type
            /\ ledger[Len(ledger)].wallet = tx.wallet
         THEN [ledger EXCEPT ![Len(ledger)] = [tx EXCEPT !.slot = slot, !.id = Len(ledger)]]
         ELSE Append(ledger, [tx EXCEPT !.slot = slot, !.id = Len(ledger) + 1])
    /\ memo' = [set |-> FALSE]
    /\ UNCHANGED << rc, share_classes, foldVars, dbVars, equityVars, txnVars, calcVars >>

\* TransactionService.record: one row appended, id assigned by the flush.
Record(tx, slot) ==
    /\ Len(ledger) < MaxLedger
    /\ ledger' = Append(ledger, [tx EXCEPT !.slot = slot, !.id = Len(ledger) + 1])
    /\ memo' = [set |-> FALSE]
    /\ UNCHANGED << rc, share_classes, foldVars, dbVars, equityVars, txnVars, calcVars >>

\* The rows of all sessions' uncommitted work, session by session.
RECURSIVE Flatten(_)
Flatten(uncommitted) ==
    IF DOMAIN uncommitted = {} THEN << >>
    ELSE LET s == CHOOSE x \in DOMAIN uncommitted :
                      \A y \in DOMAIN uncommitted : x <= y
         IN uncommitted[s]
              \o Flatten([y \in DOMAIN uncommitted \ {s} |-> uncommitted[y]])

\* Variant that also reads the rows other sessions have not committed.
Readable_uncommitted(committed, uncommitted) == committed \o Flatten(uncommitted)

\* The rows a statement of a new session reads: the engine is created with
\* the database's default isolation, read committed.
Readable(committed, uncommitted) == committed

\* reconstruct_at_slot, up to the start of the loop: the query and the
\* empty state.
Query(token_id, target_slot) ==
    /\ rc.pc = "idle"
    /\ rc' = [ pc |-> "fold",
               token_id |-> token_id,
               target_slot |-> target_slot,
               transactions |-> SelectTransactions(Readable(ledger, pending),
                                                   token_id, target_slot),
               i |-> 1,
               state |-> NewState(target_slot),
               seen |-> Len(ledger) ]
    /\ UNCHANGED << ledger, memo, share_classes, foldVars, dbVars, equityVars, txnVars, calcVars >>

\* One iteration of `for tx in transactions`.
Step ==
    /\ rc.pc = "fold"
    /\ rc.i <= Len(rc.transactions)
    /\ rc' = [rc EXCEPT !.state = ApplyTransaction(@, rc.transactions[rc.i]),
                        !.i = @ + 1]
    /\ UNCHANGED << ledger, memo, share_classes, foldVars, dbVars, equityVars, txnVars, calcVars >>

\* `return state` after the loop.
Return ==
    /\ rc.pc = "fold"
    /\ rc.i > Len(rc.transactions)
    /\ rc' = [rc EXCEPT !.pc = "done"]
    /\ UNCHANGED << ledger, memo, share_classes, foldVars, dbVars, equityVars, txnVars, calcVars >>

\* The caller has taken the result; memo keeps it while the ledger is the
\* one the call read.
Close ==
    /\ rc.pc = "done"
    /\ rc' = [pc |-> "idle"]
    /\ memo' = IF rc.seen = Len(ledger)
               THEN [ set |-> TRUE, token_id |-> rc.token_id,
                      target_slot |-> rc.target_slot, state |-> rc.state ]
               ELSE [set |-> FALSE]
    /\ UNCHANGED << ledger, share_classes, foldVars, dbVars, equityVars, txnVars, calcVars >>

\* The request is cancelled in the middle of the call.
Abandon ==
    /\ rc.pc = "fold"
    /\ rc' = [pc |-> "idle"]
    /\ UNCHANGED << ledger, memo, share_classes, foldVars, dbVars, equityVars, txnVars, calcVars >>

Next ==
    \/ \E tx \in RecordInputs, slot \in Slots : Record(tx, slot)
    \/ \E target_slot \in Slots : Query(1, target_slot)
    \/ Step
    \/ Return
    \/ Close
    \/ Abandon

Spec == Init /\ [][Next]_vars

\* reconstruct_at_slot(token_id, target_slot) over the given rows.
Reconstructed(rows, token_id, target_slot) ==
    Replay(TokenState(target_slot), SelectTransactions(rows, token_id, target_slot))

\* The tokens entries are recorded for.
Tokens == { tx.token_id : tx \in RecordInputs }

\* C29: recording an entry for a token B changes the result of
\* reconstruct(A, X) for no other token A and no target slot X.
C29_OtherTokensUnchanged ==
    [][ \A A \in Tokens, X \in Slots :
            ( /\ Len(ledger') = Len(ledger) + 1
              /\ ledger'[Len(ledger')].token_id # A )
            => Reconstructed(ledger', A, X) = Reconstructed(ledger, A, X) ]_vars

\* Witness of C29: an entry of token 2 was recorded after an entry of
\* token 1 at the same or a later slot, and each token's reconstruction
\* shows only its own entry.
C29_TwoTokensRecorded ==
    /\ Len(ledger) >= 2
    /\ ledger[1].token_id = 1 /\ ledger[1].tx_type = "share_grant"
    /\ ledger[2].token_id = 2
    /\ ledger[1].slot <= ledger[2].slot
    /\ Reconstructed(ledger, 1, MaxSlot).approved_wallets = {}
    /\ Reconstructed(ledger, 1, MaxSlot).total_supply = 1
    /\ Reconstructed(ledger, 2, MaxSlot).approved_wallets = {"A"}
    /\ Reconstructed(ledger, 2, MaxSlot).total_supply = 0

\* The rows a running call could see: the ledger as it was at its query.
Visible == { ledger[k] : k \in 1..rc.seen }

\* The grant and the 2:1 split of the specification's example, at slots 1 and 2.
IsGrantAt1(r) == r.tx_type = "share_grant" /\ r.wallet = "A" /\ r.amount = 1 /\ r.slot = 1
IsSplitAt2(r) == r.tx_type = "stock_split" /\ r.slot = 2

\* C3: reconstruct_at_slot(token, X) folds exactly the token's entries with
\* slot <= X, each once, in ascending (slot, id) order: the fetched list holds
\* exactly the visible rows of the token with slot <= X, is strictly ascending
\* in (slot, id), the state returned is the fold of that list from the empty
\* state, and a grant of 1 at slot 1 with a 2:1
\* split at slot 2 gives 1 at slot 1 and 2 from slot 2 on, whichever was
\* inserted first.
C3_FoldsRangeInOrder ==
    rc.pc \in {"fold", "done"} =>
        LET txs == rc.transactions IN
        /\ { txs[k] : k \in 1..Len(txs) } =
              { r \in Visible : r.token_id = rc.token_id /\ r.slot <= rc.target_slot }
        /\ \A j, k \in 1..Len(txs) :
              j < k => \/ txs[j].slot < txs[k].slot
                       \/ txs[j].slot = txs[k].slot /\ txs[j].id < txs[k].id
        /\ rc.pc = "done" => rc.state = Replay(TokenState(rc.target_slot), txs)
        /\ ( /\ rc.pc = "done"
             /\ rc.seen = 2
             /\ \E g, t \in Visible : IsGrantAt1(g) /\ IsSplitAt2(t) )
           => LET shares == IF rc.target_slot < 2 THEN 1 ELSE 2 IN
              /\ DictGet(rc.state.balances, "A", 0) = shares
              /\ rc.state.total_supply = shares

\* A call at slot 2 has returned 2 shares for a grant at slot 1 that was
\* inserted after the split at slot 2.
C3_SplitInsertedFirst ==
    /\ rc.pc = "done"
    /\ rc.target_slot = 2
    /\ Len(rc.transactions) = 2
    /\ IsGrantAt1(rc.transactions[1]) /\ rc.transactions[1].id = 2
    /\ IsSplitAt2(rc.transactions[2]) /\ rc.transactions[2].id = 1
    /\ DictGet(rc.state.balances, "A", 0) = 2

StructurallyInvalid(tx) ==
    \/ /\ tx.tx_type \in {"mint", "share_grant", "transfer", "burn"}
       /\ tx.wallet = NullWallet \/ tx.amount = None
    \/ /\ tx.tx_type = "stock_split"
       /\ \/ {"numerator", "denominator"} \ DOMAIN tx.data # {}
          \/ tx.data.denominator <= 0
    \/ /\ tx.tx_type = "pause"
       /\ tx.data = << >>

\* C4: if an entry of the replayed range is structurally invalid for its
\* kind, reconstruct fails as a whole and returns no TokenState: a call that
\* has returned a state has no such entry in its range.
C4_InvalidEntryFails ==
    rc.pc = "done" =>
        \A k \in 1..Len(rc.transactions) : ~StructurallyInvalid(rc.transactions[k])

\* C5: if a vesting_release or vesting_terminate entry references a schedule
\* that no earlier vesting_schedule_create entry of the token created,
\* reconstruct fails instead of returning a state: a call that has returned a
\* state has, before each such entry, the entry that created its schedule.
C5_UnknownScheduleFails ==
    rc.pc = "done" =>
        \A k \in 1..Len(rc.transactions) :
            rc.transactions[k].tx_type \in {"vesting_release", "vesting_terminate"}
            => \E j \in 1..(k - 1) :
                  /\ rc.transactions[j].tx_type = "vesting_schedule_create"
                  /\ rc.transactions[j].reference_id = rc.transactions[k].reference_id

\* Two calls for the same token and slot with no append in between return
\* the same TokenState.
C6_SameResult ==
    ( /\ rc.pc = "done"
      /\ memo.set
      /\ memo.token_id = rc.token_id
      /\ memo.target_slot = rc.target_slot
      /\ rc.seen = Len(ledger) )
    => rc.state = memo.state

\* No step of a call, its abandonment included, changes a stored row.
C6_ReadOnly ==
    [][rc' # rc => UNCHANGED << ledger, share_classes, wallets,
                                current_balances, snapshots, vesting_schedules,
                                share_positions, token, funding_round, txnVars, calcVars >>]_vars

MaxPriority == 2
MaxMultiple == 2

\* The historical branch (slot given) of get_enhanced_captable over the
\* ledger rows and the share_classes rows as they are now.  Of the response
\* it keeps slot, total_shares, total_cost_basis, holder_count, the class
\* summaries and the position entries, each as a set; the valuation-derived
\* fields, names and percentages are left out.
get_enhanced_captable(rows, classes, slot) ==
    LET state == Replay(TokenState(slot), SelectTransactions(rows, 1, slot))
        positions_data ==
            { state.positions[key] : key \in
                { k \in DOMAIN state.positions : state.positions[k].shares > 0 } }
        class_summaries ==
            { [ id |-> id,
                priority |-> classes[id].priority,
                preference_multiple |-> classes[id].preference_multiple,
                total_shares |->
                    LET class_positions ==
                            { q \in positions_data : q.share_class_id = id }
                    IN SumValues([q \in class_positions |-> q.shares]),
                holder_count |-> Cardinality(
                    { q.wallet : q \in
                        { q \in positions_data : q.share_class_id = id } }) ]
              : id \in DOMAIN classes }
        listed == { q \in positions_data : q.share_class_id \in DOMAIN classes }
        position_entries ==
            { [ wallet |-> q.wallet,
                share_class_id |-> q.share_class_id,
                shares |-> q.shares,
                cost_basis |-> q.cost_basis,
                preference_amount |->
                    q.cost_basis * classes[q.share_class_id].preference_multiple ]
              : q \in listed }
    IN [ slot |-> slot,
         total_shares |-> state.total_supply,
         total_cost_basis |-> SumValues([q \in positions_data |-> q.cost_basis]),
         holder_count |-> Cardinality({ q.wallet : q \in listed }),
         share_classes |-> class_summaries,
         positions |-> position_entries ]

CapInit ==
    /\ ledger = << >>
    /\ rc = [pc |-> "idle"]
    /\ memo = [set |-> FALSE]
    /\ share_classes = (1 :> [priority |-> 1, preference_multiple |-> 1])
    /\ DbIdle
    /\ fstate = TokenState(1)
    /\ fprev = TokenState(1)
    /\ ftx = NoTx
    /\ fcount = 0

\* PUT /share-classes/{share_class_id}
update_share_class(share_class_id, priority, preference_multiple) ==
    /\ share_class_id \in DOMAIN share_classes
    /\ preference_multiple >= 0
    /\ priority >= 0
    /\ share_classes' = [share_classes EXCEPT ![share_class_id] =
           [priority |-> priority, preference_multiple |-> preference_multiple]]
    /\ UNCHANGED << ledger, rc, memo, foldVars, dbVars, equityVars, txnVars, calcVars >>

CapNext ==
    \/ \E tx \in RecordInputs, slot \in Slots : Record(tx, slot)
    \/ \E priority \in 0..MaxPriority, preference_multiple \in 0..MaxMultiple :
          update_share_class(1, priority, preference_multiple)

CapSpec == CapInit /\ [][CapNext]_vars

\* C8: an update_share_class that changes priority or preference_multiple
\* after shares were issued changes no value returned by a historical
\* cap-table query: for every slot X at which shares are held,
\* get_enhanced_captable(slot = X) returns the same response after the edit
\* as before it.
C8_EditKeepsHistory ==
    [][ share_classes' # share_classes =>
          \A X \in Slots :
              get_enhanced_captable(ledger, share_classes, X).positions # {}
              => get_enhanced_captable(ledger', share_classes', X)
                    = get_enhanced_captable(ledger, share_classes, X) ]_vars

(***************************************************************************)
(* SnapSpec: the handlers that approve a wallet, issue tokens and take     *)
(* snapshots, with the tables they write.                                  *)
(***************************************************************************)

\* Largest number of snapshot rows.
MaxSnapshots == 2

Addresses == {"A", "B"}

\* get_current_slot(): the client's slot, or 0 when the client fails.
SlotsRead == {current_slot, 0}

\* HistoryService.create_snapshot: the CapTableSnapshotV2 row built from the
\* current_balances and wallets rows it is given.  Kept are token_id, slot, holders and holder_count; the
\* share position, vesting and share class tables have no writer here, and
\* their lists and the token row are left out.
create_snapshot(token_id, slot, balances, wallet_status_map) ==
    LET holders ==
            { [ wallet |-> w,
                balance |-> balances[w],
                status |-> DictGet(wallet_status_map, w, "unknown") ]
              : w \in { b \in DOMAIN balances : balances[b] > 0 } }
    IN [ token_id |-> token_id,
         slot |-> slot,
         holder_count |-> Cardinality(holders),
         holders |-> holders ]

SnapInit ==
    /\ ledger = << >>
    /\ rc = [pc |-> "idle"]
    /\ memo = [set |-> FALSE]
    /\ share_classes = << >>
    /\ DbIdle
    /\ fstate = TokenState(1)
    /\ fprev = TokenState(1)
    /\ ftx = NoTx
    /\ fcount = 0

\* The chain produces the next slot.
get_slot ==
    /\ current_slot < MaxSlot
    /\ current_slot' = current_slot + 1
    /\ UNCHANGED << coreVars, foldVars, equityVars, wallets, current_balances, snapshots, txnVars, calcVars >>

\* POST /allowlist/approve: the wallet row becomes active and an approval
\* entry is recorded at the slot record() reads.  (The state_changes audit
\* rows are not kept.)
approve_wallet(address, slot) ==
    /\ Len(ledger) < MaxLedger
    /\ DictGet(wallets, address, "none") # "active"
    /\ wallets' = DictPut(wallets, address, "active")
    /\ ledger' = Append(ledger,
           [UnifiedTransaction(1, slot, "approval") EXCEPT
               !.id = Len(ledger) + 1,
               !.wallet = address,
               !.data = [previous_status |-> DictGet(wallets, address, "none")]])
    /\ memo' = [set |-> FALSE]
    /\ UNCHANGED << rc, share_classes, foldVars, equityVars, current_slot,
                    current_balances, snapshots, txnVars, calcVars >>

\* POST /issuance: _update_balance on the recipient's row, then the
\* automatic snapshot at the client's slot.  No ledger entry is recorded.
issue_tokens(recipient, amount) ==
    /\ Len(snapshots) < MaxSnapshots
    /\ amount > 0
    /\ DictGet(wallets, recipient, "none") = "active"
    /\ current_balances' = AddToBalance(current_balances, recipient, amount)
    /\ snapshots' = Append(snapshots,
           create_snapshot(1, current_slot, current_balances', wallets))
    /\ UNCHANGED << coreVars, foldVars, equityVars, current_slot, wallets, txnVars, calcVars >>

\* POST /captable/snapshots/v2: a manual snapshot at the slot
\* get_current_slot() reads.
create_snapshot_v2(token_id, slot) ==
    /\ Len(snapshots) < MaxSnapshots
    /\ snapshots' = Append(snapshots,
           create_snapshot(token_id, slot, current_balances, wallets))
    /\ UNCHANGED << coreVars, foldVars, equityVars, current_slot, wallets, current_balances, txnVars, calcVars >>

SnapNext ==
    \/ get_slot
    \/ \E address \in Addresses, slot \in SlotsRead : approve_wallet(address, slot)
    \/ \E recipient \in Addresses : issue_tokens(recipient, 1)
    \/ \E slot \in SlotsRead : create_snapshot_v2(1, slot)

SnapSpec == SnapInit /\ [][SnapNext]_vars

\* The balances a snapshot row stores, as TokenState keeps them.
SnapshotBalances(snapshot) ==
    [ w \in { h.wallet : h \in snapshot.holders } |->
        (CHOOSE h \in snapshot.holders : h.wallet = w).balance ]

\* The token's entries with slot in (S, X], in (slot, id) order.
EntriesAfter(S, X) ==
    OrderBy({ ledger[k] : k \in
        { j \in 1..Len(ledger) :
            /\ ledger[j].token_id = 1
            /\ ledger[j].slot > S
            /\ ledger[j].slot <= X } })

\* C2: for every snapshot at S and every X >= S, the balances obtained by
\* starting from the state stored in the snapshot and folding only the
\* entries in (S, X] are the balances reconstruct_at_slot(token, X) obtains
\* by folding all entries <= X from the empty state.
C2_SnapshotEquivalence ==
    \A k \in 1..Len(snapshots), X \in Slots :
        snapshots[k].slot <= X =>
            Replay([TokenState(X) EXCEPT
                        !.balances = SnapshotBalances(snapshots[k])],
                   EntriesAfter(snapshots[k].slot, X)).balances
              = Replay(TokenState(X), SelectTransactions(ledger, 1, X)).balances

\* The holders with shares in a reconstructed state, as a snapshot lists
\* them.
PositiveBalances(state) ==
    [ w \in { b \in DOMAIN state.balances : state.balances[b] > 0 } |->
        state.balances[w] ]

\* C31: the holder balances stored in every snapshot labelled with slot S
\* are those of reconstruct(token, S), whether the slot was read from the
\* client or is a past one.
C31_SnapshotRederivable ==
    \A k \in 1..Len(snapshots) :
        SnapshotBalances(snapshots[k])
            = PositiveBalances(Reconstructed(ledger, snapshots[k].token_id,
                                             snapshots[k].slot))

(***************************************************************************)
(* LookupSpec: snapshots of two tokens are taken and looked up by slot.    *)
(***************************************************************************)

\* Variant that orders the matching rows by ascending slot.
get_snapshot_at_slot_asc(rows, token_id, slot) ==
    LET matching == { k \in 1..Len(rows) :
                         rows[k].token_id = token_id /\ rows[k].slot <= slot }
    IN { rows[k] : k \in { m \in matching :
                              \A o \in matching : rows[o].slot >= rows[m].slot } }

\* HistoryService.get_snapshot_at_slot: the rows the query
\*     where(token_id == token_id, slot <= slot).order_by(slot.desc()).limit(1)
\* may return: none when no row matches, else a row of the greatest slot
\* (which one of several with that slot is the database's choice).
get_snapshot_at_slot(rows, token_id, slot) ==
    LET matching == { k \in 1..Len(rows) :
                         rows[k].token_id = token_id /\ rows[k].slot <= slot }
    IN { rows[k] : k \in { m \in matching :
                              \A o \in matching : rows[o].slot <= rows[m].slot } }

\* The tokens snapshots are taken of.
SnapshotTokens == {1, 2}

LookupInit == SnapInit

\* GET /captable/snapshots/v2/{slot}: the snapshot found, or 404.
get_snapshot_v2_at_slot(token_id, slot) ==
    /\ calc.op = "none"
    /\ LET found == get_snapshot_at_slot(snapshots, token_id, slot)
       IN IF found = {}
          THEN calc' = [ op |-> "snapshot_at", token_id |-> token_id,
                         slot |-> slot, rows |-> snapshots,
                         status |-> 404 ]
          ELSE \E snapshot \in found :
                   calc' = [ op |-> "snapshot_at", token_id |-> token_id,
                             slot |-> slot, rows |-> snapshots,
                             status |-> 200,
                             snapshot |-> snapshot ]
    /\ UNCHANGED << coreVars, foldVars, dbVars, equityVars, txnVars >>

\* The response has been sent.
SnapshotResponse ==
    /\ calc.op = "snapshot_at"
    /\ calc' = [op |-> "none"]
    /\ UNCHANGED << coreVars, foldVars, dbVars, equityVars, txnVars >>

LookupNext ==
    \/ get_slot
    \/ \E token_id \in SnapshotTokens, slot \in SlotsRead :
           create_snapshot_v2(token_id, slot)
    \/ \E token_id \in SnapshotTokens, slot \in 0..MaxSlot :
           get_snapshot_v2_at_slot(token_id, slot)
    \/ SnapshotResponse

LookupSpec == LookupInit /\ [][LookupNext]_vars

\* The snapshot rows of the looked-up token at or before the looked-up
\* slot, among the rows stored when the query ran.
Eligible ==
    { k \in 1..Len(calc.rows) :
        calc.rows[k].token_id = calc.token_id /\ calc.rows[k].slot <= calc.slot }

\* C32: a lookup returns a stored snapshot of the token with the greatest
\* slot <= X, never one with a greater slot or of another token, and
\* returns nothing exactly when the token has no snapshot with slot <= X.
C32_LatestSnapshotAtOrBefore ==
    calc.op = "snapshot_at" =>
        /\ (calc.status = 404) <=> (Eligible = {})
        /\ calc.status = 200 =>
               /\ \E k \in Eligible : calc.rows[k] = calc.snapshot
               /\ calc.snapshot.token_id = calc.token_id
               /\ calc.snapshot.slot <= calc.slot
               /\ \A k \in Eligible : calc.rows[k].slot <= calc.snapshot.slot

\* Witness of C32: the token has snapshots at slots 0 and 2, and the
\* lookup at slot 1 returned the one at slot 0.
C32_EarlierSnapshotReturned ==
    /\ calc.op = "snapshot_at"
    /\ calc.status = 200
    /\ calc.slot = 1
    /\ calc.snapshot.slot = 0
    /\ \E k \in 1..Len(calc.rows) :
           calc.rows[k].token_id = calc.token_id /\ calc.rows[k].slot = 2

\* Witness of C32, second case: the lookup found nothing while the other
\* token has a snapshot at or before the slot.
C32_OnlyOtherTokenHasSnapshot ==
    /\ calc.op = "snapshot_at"
    /\ calc.status = 404
    /\ \E k \in 1..Len(calc.rows) :
           calc.rows[k].token_id # calc.token_id /\ calc.rows[k].slot <= calc.slot

(***************************************************************************)
(* VestSpec: the vesting_schedules table with the handlers that create,    *)
(* release and terminate a schedule, the cap-table view and the scheduler  *)
(* pass.  Time is datetime.utcnow() in seconds.                            *)
(***************************************************************************)

\* The wall clock advances TickSeconds at a time, up to MaxTime.
TickSeconds == 30
MaxTime == 180

Max(a, b) == IF a >= b THEN a ELSE b
Min(a, b) == IF a <= b THEN a ELSE b

\* VestingInterval.to_seconds, with the 60 of an invalid interval.
interval_seconds(schedule) ==
    CASE schedule.interval = "minute" -> 60
      [] schedule.interval = "hour" -> 3600
      [] schedule.interval = "day" -> 86400
      [] schedule.interval = "month" -> 30 * 86400
      [] OTHER -> 60

total_intervals(schedule) ==
    LET vesting_duration == schedule.duration_seconds - schedule.cliff_seconds
    IN IF vesting_duration <= 0 THEN 1
       ELSE Max(1, vesting_duration \div interval_seconds(schedule))

amount_per_interval(schedule) ==
    schedule.total_amount \div total_intervals(schedule)

\* Variant that distributes no remainder.
remainder_none(schedule) == 0

remainder(schedule) ==
    schedule.total_amount % total_intervals(schedule)

\* Variant that adds the remainder units to the first intervals.
calculate_vested_front(schedule, current_time) ==
    LET elapsed == current_time - schedule.start_time
        intervals_elapsed ==
            (elapsed - schedule.cliff_seconds) \div interval_seconds(schedule)
        vested == amount_per_interval(schedule) * intervals_elapsed
        extra == Min(intervals_elapsed, remainder(schedule))
    IN IF schedule.vested_at_termination # None THEN schedule.vested_at_termination
       ELSE IF schedule.revoked THEN schedule.released_amount
       ELSE IF elapsed < 0 THEN 0
       ELSE IF elapsed >= schedule.duration_seconds THEN schedule.total_amount
       ELSE IF elapsed < schedule.cliff_seconds THEN 0
       ELSE Min(vested + extra, schedule.total_amount)

calculate_vested(schedule, current_time) ==
    LET elapsed == current_time - schedule.start_time
        intervals_elapsed ==
            (elapsed - schedule.cliff_seconds) \div interval_seconds(schedule)
        rem == remainder(schedule)
        vested == amount_per_interval(schedule) * intervals_elapsed
        extra == IF intervals_elapsed > total_intervals(schedule) - rem
                 THEN intervals_elapsed - (total_intervals(schedule) - rem)
                 ELSE 0
    IN IF schedule.vested_at_termination # None THEN schedule.vested_at_termination
       ELSE IF schedule.revoked THEN schedule.released_amount
       ELSE IF elapsed < 0 THEN 0
       ELSE IF elapsed >= schedule.duration_seconds THEN schedule.total_amount
       ELSE IF elapsed < schedule.cliff_seconds THEN 0
       ELSE Min(vested + extra, schedule.total_amount)

\* Variant that reports the intervals elapsed, released or not.
calculate_releasable_intervals_elapsed(schedule, current_time) ==
    LET elapsed == current_time - schedule.start_time
        intervals_elapsed ==
            (elapsed - schedule.cliff_seconds) \div interval_seconds(schedule)
    IN IF elapsed < 0 \/ elapsed < schedule.cliff_seconds THEN 0
       ELSE IF elapsed >= schedule.duration_seconds
       THEN total_intervals(schedule)
       ELSE Max(0, intervals_elapsed)

calculate_releasable_intervals(schedule, current_time) ==
    LET elapsed == current_time - schedule.start_time
        intervals_elapsed ==
            (elapsed - schedule.cliff_seconds) \div interval_seconds(schedule)
    IN IF elapsed < 0 \/ elapsed < schedule.cliff_seconds THEN 0
       ELSE IF elapsed >= schedule.duration_seconds
       THEN total_intervals(schedule) - schedule.intervals_released
       ELSE Max(0, intervals_elapsed - schedule.intervals_released)

\* The release amount the three release paths compute for new_intervals
\* more intervals: the base amount plus the remainder shares of the final
\* intervals among them.
release_amount(schedule, new_intervals) ==
    LET previous_intervals == schedule.intervals_released
        new_total_intervals == previous_intervals + new_intervals
        remainder_start == total_intervals(schedule) - remainder(schedule)
        remainder_intervals_before ==
            IF previous_intervals > remainder_start
            THEN Max(0, previous_intervals - remainder_start) ELSE 0
        remainder_intervals_now ==
            IF new_total_intervals > remainder_start
            THEN Min(new_total_intervals - remainder_start, remainder(schedule))
            ELSE 0
    IN amount_per_interval(schedule) * new_intervals
       + ( IF /\ new_total_intervals > remainder_start
              /\ previous_intervals < total_intervals(schedule)
           THEN remainder_intervals_now - remainder_intervals_before
           ELSE 0 )

\* NULL of a nullable string column.
NullString == "null"

is_terminated(schedule) == schedule.termination_type # NullString

\* Requests create_vesting_schedule is called with.
CreateVestingRequests ==
    { [ beneficiary |-> "A", total_amount |-> 5, cost_basis |-> 0,
        start_time |-> 0, cliff_seconds |-> c, duration_seconds |-> 180,
        interval |-> "minute", revocable |-> TRUE ] : c \in {0, 30} }

\* tx_service.record(...): the rows with one more, its id set by the flush.
Recorded(rows, tx) == Append(rows, [tx EXCEPT !.id = Len(rows) + 1])

\* priority and preference_multiple of schedule.share_class, or 99 and 1.0
\* when the schedule has none.
SchedulePriority(schedule) ==
    IF schedule.share_class_id \in DOMAIN share_classes
    THEN share_classes[schedule.share_class_id].priority ELSE 99

ScheduleMultiple(schedule) ==
    IF schedule.share_class_id \in DOMAIN share_classes
    THEN share_classes[schedule.share_class_id].preference_multiple ELSE 1

\* The VESTING_RELEASE entry the release paths record.
ReleaseEntry(schedule, new_intervals, slot, class, priority, multiple) ==
    [UnifiedTransaction(1, slot, "vesting_release") EXCEPT
        !.wallet = schedule.beneficiary,
        !.amount = release_amount(schedule, new_intervals),
        !.share_class_id = class,
        !.priority = priority,
        !.preference_multiple = multiple,
        !.reference_id = schedule.id,
        !.data = [ intervals_released |-> new_intervals,
                   total_intervals_released |->
                       schedule.intervals_released + new_intervals,
                   total_intervals |-> total_intervals(schedule),
                   amount_per_interval |-> amount_per_interval(schedule),
                   total_amount |-> schedule.total_amount ]]

\* schedule.intervals_released = new_total_intervals;
\* schedule.released_amount += release_amount
Released(schedule, new_intervals) ==
    [schedule EXCEPT
        !.intervals_released = @ + new_intervals,
        !.released_amount = @ + release_amount(schedule, new_intervals)]

VestInit ==
    /\ CoreIdle
    /\ fstate = TokenState(1)
    /\ fprev = TokenState(1)
    /\ ftx = NoTx
    /\ fcount = 0

\* The wall clock advances.
Tick ==
    /\ now + TickSeconds <= MaxTime
    /\ now' = now + TickSeconds
    /\ UNCHANGED << coreVars, foldVars, dbVars, vesting_schedules,
                    share_positions, token, funding_round, txnVars, calcVars >>

\* derive_vesting_pda(token_config_pda, beneficiary, start_time): the
\* address of the schedule, a unique column of vesting_schedules.
derive_vesting_pda(request) == << request.beneficiary, request.start_time >>

\* POST /vesting
create_vesting_schedule(request, slot) ==
    /\ request.total_amount > 0
    /\ request.duration_seconds > 0
    /\ request.cliff_seconds >= 0
    /\ request.cliff_seconds < request.duration_seconds
    /\ LET schedule ==
               [ id |-> Len(vesting_schedules) + 1,
                 on_chain_address |-> derive_vesting_pda(request),
                 share_class_id |-> None,
                 beneficiary |-> request.beneficiary,
                 total_amount |-> request.total_amount,
                 released_amount |-> 0,
                 cost_basis |-> request.cost_basis,
                 start_time |-> request.start_time,
                 cliff_seconds |-> request.cliff_seconds,
                 duration_seconds |-> request.duration_seconds,
                 interval |-> request.interval,
                 intervals_released |-> 0,
                 revocable |-> request.revocable,
                 revoked |-> FALSE,
                 termination_type |-> NullString,
                 vested_at_termination |-> None ]
       IN /\ request.duration_seconds - request.cliff_seconds
                >= interval_seconds(schedule)
          /\ \A k \in DOMAIN vesting_schedules :
                 vesting_schedules[k].on_chain_address # schedule.on_chain_address
          /\ vesting_schedules' = Append(vesting_schedules, schedule)
          /\ ledger' = Recorded(ledger,
                 [UnifiedTransaction(1, slot, "vesting_schedule_create") EXCEPT
                     !.wallet = request.beneficiary,
                     !.amount = request.total_amount,
                     !.amount_secondary = request.cost_basis,
                     !.priority = 99,
                     !.preference_multiple = 1,
                     !.reference_id = schedule.id,
                     !.data = [ start_time |-> request.start_time,
                                duration_seconds |-> request.duration_seconds,
                                cliff_seconds |-> request.cliff_seconds,
                                interval |-> request.interval,
                                total_intervals |-> total_intervals(schedule),
                                amount_per_interval |-> amount_per_interval(schedule),
                                revocable |-> request.revocable ]])
    /\ UNCHANGED << rc, memo, share_classes, foldVars, dbVars, now,
                    share_positions, token, funding_round, txnVars, calcVars >>

\* POST /vesting/{schedule_id}/release
release_vested_tokens(schedule_id, slot) ==
    /\ schedule_id \in DOMAIN vesting_schedules
    /\ LET schedule == vesting_schedules[schedule_id]
           new_intervals == calculate_releasable_intervals(schedule, now)
       IN /\ ~is_terminated(schedule)
          /\ new_intervals > 0
          /\ release_amount(schedule, new_intervals) > 0
          /\ ledger' = Recorded(ledger,
                 ReleaseEntry(schedule, new_intervals, slot, schedule.share_class_id,
                              SchedulePriority(schedule), ScheduleMultiple(schedule)))
          /\ vesting_schedules' = [vesting_schedules EXCEPT
                 ![schedule_id] = Released(schedule, new_intervals)]
          /\ current_balances' = AddToBalance(current_balances, schedule.beneficiary,
                 release_amount(schedule, new_intervals))
    /\ UNCHANGED << rc, memo, share_classes, foldVars, current_slot, wallets,
                    snapshots, now, share_positions, token, funding_round, txnVars, calcVars >>

\* The rows a handler works on while it loops over the schedules.
Tables ==
    [ ledger |-> ledger, schedules |-> vesting_schedules,
      balances |-> current_balances, positions |-> share_positions,
      total_newly_vested |-> 0 ]

\* vesting._auto_release_vested on one schedule: the release entry, the
\* schedule row, the beneficiary's balance and, when the schedule has a
\* share class and the position exists, the position.
auto_release_vested(db, schedule, slot) ==
    LET new_intervals == calculate_releasable_intervals(schedule, now)
        amount == release_amount(schedule, new_intervals)
        key == << schedule.beneficiary, schedule.share_class_id >>
    IN IF new_intervals <= 0 \/ amount <= 0 THEN db
       ELSE [db EXCEPT
               !.ledger = Recorded(@,
                   ReleaseEntry(schedule, new_intervals, slot, schedule.share_class_id,
                                SchedulePriority(schedule), ScheduleMultiple(schedule))),
               !.schedules[schedule.id] = Released(schedule, new_intervals),
               !.balances = AddToBalance(@, schedule.beneficiary, amount),
               !.positions =
                   IF Truthy(schedule.share_class_id) /\ key \in DOMAIN @
                   THEN [@ EXCEPT ![key].shares = @ + amount]
                   ELSE @]

\* for schedule in schedules: if not schedule.is_terminated: auto-release
RECURSIVE AutoReleaseFrom(_, _, _)
AutoReleaseFrom(db, id, slot) ==
    IF id > Len(db.schedules) THEN db
    ELSE AutoReleaseFrom(
             IF is_terminated(db.schedules[id]) THEN db
             ELSE auto_release_vested(db, db.schedules[id], slot),
             id + 1, slot)

\* GET /vesting
list_vesting_schedules(slot) ==
    LET db == AutoReleaseFrom(Tables, 1, slot)
    IN /\ ledger' = db.ledger
       /\ vesting_schedules' = db.schedules
       /\ current_balances' = db.balances
       /\ share_positions' = db.positions
       /\ UNCHANGED << rc, memo, share_classes, foldVars, current_slot, wallets,
                       snapshots, now, token, funding_round, txnVars, calcVars >>

\* captable._auto_release_vested on one schedule: released_amount is set to
\* the vested amount and the difference credited; no entry is recorded.
captable_auto_release_vested(db, schedule) ==
    LET vested == calculate_vested(schedule, now)
        releasable == vested - schedule.released_amount
    IN IF releasable > 0
       THEN [db EXCEPT
               !.schedules[schedule.id].released_amount = vested,
               !.balances = AddToBalance(@, schedule.beneficiary, releasable)]
       ELSE db

RECURSIVE CaptableReleaseFrom(_, _)
CaptableReleaseFrom(db, id) ==
    IF id > Len(db.schedules) THEN db
    ELSE CaptableReleaseFrom(
             IF is_terminated(db.schedules[id]) THEN db
             ELSE captable_auto_release_vested(db, db.schedules[id]),
             id + 1)

\* GET /captable (current state): the auto-release of _build_captable.
get_captable ==
    LET db == CaptableReleaseFrom(Tables, 1)
    IN /\ vesting_schedules' = db.schedules
       /\ current_balances' = db.balances
       /\ UNCHANGED << coreVars, foldVars, current_slot, wallets, snapshots,
                       now, share_positions, token, funding_round, txnVars, calcVars >>

\* One schedule of the scheduler pass: the release entry and the schedule
\* row; the balance is not credited.
SchedulerRelease(db, schedule, slot) ==
    LET new_intervals == calculate_releasable_intervals(schedule, now)
        amount == release_amount(schedule, new_intervals)
    IN IF new_intervals > 0 /\ amount > 0
       THEN [db EXCEPT
               !.ledger = Recorded(@,
                   ReleaseEntry(schedule, new_intervals, slot, None, 99, 1)),
               !.schedules[schedule.id] = Released(schedule, new_intervals),
               !.total_newly_vested = @ + amount]
       ELSE db

RECURSIVE SchedulerFrom(_, _, _)
SchedulerFrom(db, id, slot) ==
    IF id > Len(db.schedules) THEN db
    ELSE SchedulerFrom(
             IF is_terminated(db.schedules[id]) THEN db
             ELSE SchedulerRelease(db, db.schedules[id], slot),
             id + 1, slot)

\* VestingScheduler.process_token_vesting_releases, with the commit of
\* process_all_vesting_releases.
process_token_vesting_releases(slot) ==
    LET db == SchedulerFrom(Tables, 1, slot)
    IN /\ ledger' = db.ledger
       /\ vesting_schedules' = db.schedules
       /\ token' = IF db.total_newly_vested > 0
                   THEN [token EXCEPT !.total_supply = @ + db.total_newly_vested]
                   ELSE token
       /\ UNCHANGED << rc, memo, share_classes, foldVars, dbVars, now,
                       share_positions, funding_round, txnVars, calcVars >>

TerminationType == {"standard", "for_cause", "accelerated"}

\* _calculate_termination_preview
calculate_termination_preview(schedule, termination_type) ==
    LET current_vested == calculate_vested(schedule, now)
        final_vested == IF termination_type = "accelerated"
                        THEN schedule.total_amount ELSE current_vested
    IN [ current_vested |-> current_vested,
         final_vested |-> final_vested,
         to_treasury |-> schedule.total_amount - final_vested ]

\* POST /vesting/{schedule_id}/terminate
terminate_vesting(schedule_id, termination_type, slot) ==
    /\ schedule_id \in DOMAIN vesting_schedules
    /\ LET schedule == vesting_schedules[schedule_id]
           preview == calculate_termination_preview(schedule, termination_type)
           newly_vested == preview.final_vested - schedule.released_amount
       IN /\ ~is_terminated(schedule)
          /\ schedule.revocable
          /\ vesting_schedules' = [vesting_schedules EXCEPT
                 ![schedule_id] = [schedule EXCEPT
                     !.termination_type = termination_type,
                     !.vested_at_termination = preview.final_vested,
                     !.released_amount = preview.final_vested,
                     !.revoked = TRUE]]
          /\ current_balances' =
                 IF newly_vested > 0
                 THEN AddToBalance(current_balances, schedule.beneficiary, newly_vested)
                 ELSE current_balances
          /\ ledger' = Recorded(ledger,
                 [UnifiedTransaction(1, slot, "vesting_terminate") EXCEPT
                     !.wallet = schedule.beneficiary,
                     !.amount = preview.final_vested,
                     !.amount_secondary = preview.to_treasury,
                     !.share_class_id = schedule.share_class_id,
                     !.reference_id = schedule.id,
                     !.data = [ termination_type |-> termination_type,
                                current_vested |-> preview.current_vested,
                                final_vested |-> preview.final_vested,
                                to_treasury |-> preview.to_treasury ]])
    /\ UNCHANGED << rc, memo, share_classes, foldVars, current_slot, wallets,
                    snapshots, now, share_positions, token, funding_round, txnVars, calcVars >>

VestNext ==
    \/ Tick
    \/ get_slot
    \/ \E request \in CreateVestingRequests, slot \in SlotsRead :
           create_vesting_schedule(request, slot)
    \/ \E schedule_id \in DOMAIN vesting_schedules, slot \in SlotsRead :
           release_vested_tokens(schedule_id, slot)
    \/ \E slot \in SlotsRead : list_vesting_schedules(slot)
    \/ get_captable
    \/ \E slot \in SlotsRead : process_token_vesting_releases(slot)
    \/ \E schedule_id \in DOMAIN vesting_schedules, termination_type \in TerminationType,
          slot \in SlotsRead :
           terminate_vesting(schedule_id, termination_type, slot)

VestSpec == VestInit /\ [][VestNext]_vars

\* reconstruct_at_slot(token 1, target_slot) over the given rows.
reconstruct_at_slot(rows, target_slot) ==
    Replay(TokenState(target_slot), SelectTransactions(rows, 1, target_slot))

\* The rows appended by the step from old to new.
Appended(old, new) == { new[i] : i \in (Len(old) + 1)..Len(new) }

\* C14: with a non-decreasing clock no business operation appends an entry
\* that sorts before an already recorded entry of the same token, and the
\* state reconstructed at a slot the clock has passed stays the same.
C14_NoEntryBeforeRecorded ==
    [][ /\ \A tx \in Appended(ledger, ledger') :
               \A j \in 1..Len(ledger) :
                   ledger[j].token_id = tx.token_id => OrderKeyLess(ledger[j], tx)
        /\ \A X \in Slots :
               X < current_slot =>
                   reconstruct_at_slot(ledger', X) = reconstruct_at_slot(ledger, X) ]_vars

\* No entry was recorded with the slot of a failed clock read.
NoSlotZero(rows) == \A j \in 1..Len(rows) : rows[j].slot # 0

\* C17: every stored, unterminated schedule's released_amount equals the
\* released_amount of that schedule in the state reconstructed at the latest
\* slot (entries recorded while the clock failed are left aside).
C17_ReleasedAmountReconstructed ==
    NoSlotZero(ledger) =>
        \A id \in DOMAIN vesting_schedules :
            ~is_terminated(vesting_schedules[id]) =>
                LET state == reconstruct_at_slot(ledger, current_slot)
                IN /\ id \in DOMAIN state.vesting_schedules
                   /\ state.vesting_schedules[id].released_amount
                        = vesting_schedules[id].released_amount

\* The stored balance of every wallet is its reconstructed balance.
BalancesAgree(rows, balances, slot) ==
    \A w \in Addresses :
        DictGet(reconstruct_at_slot(rows, slot).balances, w, 0) = DictGet(balances, w, 0)

\* C18: a termination of a schedule whose beneficiary's stored balance was
\* the reconstructed one leaves it the reconstructed one: every share the
\* termination credits is in the ledger as a vesting_release entry.
C18_TerminationCreditsRecorded ==
    [][ \A id \in DOMAIN vesting_schedules :
            ( /\ ~is_terminated(vesting_schedules[id])
              /\ is_terminated(vesting_schedules'[id])
              /\ NoSlotZero(ledger')
              /\ BalancesAgree(ledger, current_balances, current_slot) )
            => BalancesAgree(ledger', current_balances', current_slot) ]_vars

\* The vesting_release entries of a schedule.
ReleaseEntries(id) ==
    { j \in 1..Len(ledger) :
        ledger[j].tx_type = "vesting_release" /\ ledger[j].reference_id = id }

\* The shares of the first k intervals: amount_per_interval each, and one
\* more for each of them among the final remainder intervals.
FirstIntervals(schedule, k) ==
    amount_per_interval(schedule) * k
        + Max(0, k - (total_intervals(schedule) - remainder(schedule)))

\* C19: after each release-recording operation the amounts of the
\* schedule's vesting_release entries sum to the shares of its first
\* intervals_released intervals, which are never more than total_intervals.
C19_EachIntervalReleasedOnce ==
    \A id \in DOMAIN vesting_schedules :
        LET schedule == vesting_schedules[id]
        IN /\ schedule.intervals_released <= total_intervals(schedule)
           /\ SumValues([j \in ReleaseEntries(id) |-> ledger[j].amount])
                = FirstIntervals(schedule, schedule.intervals_released)

\* A schedule released in two operations up to its last interval, the
\* second of them covering remainder intervals.
C19_ReleasedInTwoSteps ==
    \E id \in DOMAIN vesting_schedules :
        LET schedule == vesting_schedules[id]
        IN /\ schedule.intervals_released = total_intervals(schedule)
           /\ remainder(schedule) > 0
           /\ Cardinality(ReleaseEntries(id)) >= 2

\* C34: every stored vesting schedule has released_amount <= total_amount
\* after any sequence of cap-table views, listings, manual releases,
\* scheduler passes and terminations.
C34_ReleasedWithinTotal ==
    \A id \in DOMAIN vesting_schedules :
        vesting_schedules[id].released_amount <= vesting_schedules[id].total_amount

(***************************************************************************)
(* RaceSpec: the release paths as concurrent requests.  Each request has   *)
(* its own session; it selects the schedule row, computes the release from *)
(* the row it loaded and, after the awaits in between (the slot lookup,    *)
(* the flush of record), writes the entry and the row and commits.  The    *)
(* engine has the database's default isolation and no path locks the row.  *)
(***************************************************************************)

\* API requests in flight at the same time, and ledger entries recorded.
MaxRequests == 2
MaxEntries == 3

\* The three paths that record a VESTING_RELEASE entry.
ReleasePaths ==
    { "release_vested_tokens", "list_vesting_schedules",
      "process_token_vesting_releases" }

\* The key of the scheduler's pass among the requests; the API requests
\* have the keys 1..MaxRequests.
SchedulerPass == 0

\* The requests between their select and their commit.
Running == IF calc.op = "requests" THEN calc.running ELSE << >>

\* select(VestingSchedule) of a request and the computation on the loaded
\* row: the request goes on only with a schedule that is not terminated and
\* has new intervals with a positive amount.  The scheduler has read the
\* slot and the token row before; its loop runs one pass at a time.
release_select(path, schedule_id, slot) ==
    /\ path # "process_token_vesting_releases"
           => Len(ledger) + Cardinality(DOMAIN Running) < MaxEntries
    /\ \E r \in SchedulerPass..MaxRequests :
           /\ r \notin DOMAIN Running
           /\ IF path = "process_token_vesting_releases"
              THEN r = SchedulerPass
              ELSE /\ r # SchedulerPass
                   /\ \A o \in 1..MaxRequests : o < r => o \in DOMAIN Running
           /\ schedule_id \in DOMAIN vesting_schedules
           /\ LET schedule == vesting_schedules[schedule_id]
                  new_intervals == calculate_releasable_intervals(schedule, now)
              IN /\ ~is_terminated(schedule)
                 /\ new_intervals > 0
                 /\ release_amount(schedule, new_intervals) > 0
                 /\ calc' = [ op |-> "requests",
                              running |->
                                  [ x \in DOMAIN Running \cup {r} |->
                                      IF x = r
                                      THEN [ path |-> path,
                                             schedule |-> schedule,
                                             new_intervals |-> new_intervals,
                                             slot |-> IF path = "process_token_vesting_releases"
                                                      THEN slot ELSE None,
                                             total_supply |-> token.total_supply ]
                                      ELSE Running[x] ] ]
    /\ UNCHANGED << coreVars, foldVars, dbVars, equityVars, txnVars >>

\* The rest of the request: the entry is recorded, the loaded row's
\* intervals_released and released_amount are written as computed from the
\* loaded values, the balance (or, for the scheduler, the token's supply as
\* loaded) is updated, and the session commits.
release_commit(r, slot) ==
    /\ r \in DOMAIN Running
    /\ LET request == Running[r]
           schedule == request.schedule
           amount == release_amount(schedule, request.new_intervals)
           scheduler == request.path = "process_token_vesting_releases"
           left == [ x \in DOMAIN Running \ {r} |-> Running[x] ]
       IN /\ ledger' = Recorded(ledger,
                 IF scheduler
                 THEN ReleaseEntry(schedule, request.new_intervals, request.slot,
                                   None, 99, 1)
                 ELSE ReleaseEntry(schedule, request.new_intervals, slot,
                                   schedule.share_class_id,
                                   SchedulePriority(schedule),
                                   ScheduleMultiple(schedule)))
          /\ vesting_schedules' = [vesting_schedules EXCEPT
                 ![schedule.id] = [@ EXCEPT
                     !.intervals_released =
                         schedule.intervals_released + request.new_intervals,
                     !.released_amount = schedule.released_amount + amount]]
          /\ current_balances' =
                 IF scheduler THEN current_balances
                 ELSE AddToBalance(current_balances, schedule.beneficiary, amount)
          /\ token' = IF scheduler
                      THEN [token EXCEPT !.total_supply = request.total_supply + amount]
                      ELSE token
          /\ calc' = IF DOMAIN left = {} THEN [op |-> "none"]
                     ELSE [op |-> "requests", running |-> left]
    /\ UNCHANGED << rc, memo, share_classes, foldVars, current_slot, wallets,
                    snapshots, now, share_positions, funding_round, txnVars >>

\* The slot lookups of the requests succeed: every entry carries the
\* current slot.
RaceInit == VestInit

RaceNext ==
    \/ Tick
    \/ \E request \in CreateVestingRequests :
           create_vesting_schedule(request, current_slot)
    \/ \E path \in ReleasePaths, schedule_id \in DOMAIN vesting_schedules :
           release_select(path, schedule_id, current_slot)
    \/ \E r \in SchedulerPass..MaxRequests : release_commit(r, current_slot)
    \/ \E schedule_id \in DOMAIN vesting_schedules, termination_type \in TerminationType :
           terminate_vesting(schedule_id, termination_type, current_slot)

RaceSpec == RaceInit /\ [][RaceNext]_vars

\* The VESTING_RELEASE entries of the ledger that reference schedule id.
ReleaseIds(id) ==
    { k \in 1..Len(ledger) :
        ledger[k].tx_type = "vesting_release" /\ ledger[k].reference_id = id }

\* The total of the amounts of the release entries recorded for a schedule.
ReleasedTotal(id) == SumValues([k \in ReleaseIds(id) |-> ledger[k].amount])

\* Whole intervals elapsed since the cliff, at most total_intervals().
IntervalsElapsed(schedule) ==
    IF now - schedule.start_time < schedule.cliff_seconds THEN 0
    ELSE Min(total_intervals(schedule),
             (now - schedule.start_time - schedule.cliff_seconds)
                 \div interval_seconds(schedule))

\* C33: whatever way requests of the release paths interleave, the release
\* entries recorded for a schedule that is not terminated never total more
\* than the amount vested at that time, and intervals_released never
\* exceeds the number of elapsed intervals.
C33_NoIntervalReleasedTwice ==
    \A id \in DOMAIN vesting_schedules :
        ~is_terminated(vesting_schedules[id]) =>
            /\ ReleasedTotal(id) <= calculate_vested(vesting_schedules[id], now)
            /\ vesting_schedules[id].intervals_released
                   <= IntervalsElapsed(vesting_schedules[id])

\* C35: once a vesting_terminate entry is recorded for a schedule, no
\* VESTING_RELEASE entry referencing the schedule is recorded after it.
C35_NoReleaseAfterTerminate ==
    \A k \in 1..Len(ledger) :
        ledger[k].tx_type = "vesting_terminate" =>
            \A j \in (k + 1)..Len(ledger) :
                ~ ( /\ ledger[j].tx_type = "vesting_release"
                    /\ ledger[j].reference_id = ledger[k].reference_id )

\* One step of the scheduler: the select of a pass, or the rest of it.
SchedulerStep ==
    \/ \E schedule_id \in DOMAIN vesting_schedules :
           release_select("process_token_vesting_releases", schedule_id, current_slot)
    \/ release_commit(SchedulerPass, current_slot)

\* RaceSpec with the clock advancing and the scheduler's loop running: after
\* every pass _run_loop sleeps and starts the next one, and a pass that has
\* selected goes on to its commit.
FairRaceSpec == RaceSpec /\ WF_vars(Tick) /\ WF_vars(SchedulerStep)

\* The ids of the rows create_vesting_schedule inserts: its requests share
\* one on_chain_address.
ScheduleIds == {1}

\* The schedule exists, is not terminated and its full duration has elapsed.
DurationElapsed(id) ==
    /\ id \in DOMAIN vesting_schedules
    /\ ~is_terminated(vesting_schedules[id])
    /\ now - vesting_schedules[id].start_time >= vesting_schedules[id].duration_seconds

\* All intervals are released and the recorded releases total total_amount.
FullyReleased(id) ==
    /\ id \in DOMAIN vesting_schedules
    /\ vesting_schedules[id].intervals_released = total_intervals(vesting_schedules[id])
    /\ ReleasedTotal(id) = vesting_schedules[id].total_amount

ScheduleTerminated(id) ==
    id \in DOMAIN vesting_schedules /\ is_terminated(vesting_schedules[id])

\* C36: with the scheduler running, a schedule that is not terminated and
\* whose duration has elapsed eventually has intervals_released equal to
\* total_intervals() and recorded releases that total exactly total_amount,
\* and stays so (no further release is recorded) unless it is terminated.
C36_SchedulerCompletesSchedule ==
    \A id \in ScheduleIds :
        [](DurationElapsed(id) => <>(ScheduleTerminated(id) \/ []FullyReleased(id)))

(***************************************************************************)
(* TxnSpec: request sessions that record entries and commit or roll back,  *)
(* while a reconstruct_at_slot call of another session runs.               *)
(***************************************************************************)

MaxSessions == 2
MaxId == 3

Sessions == 1..MaxSessions

\* Entries the sessions record.
TxnInputs == { tx \in RecordInputs : tx.tx_type = "share_grant" }

TxnInit ==
    /\ CoreIdle
    /\ fstate = TokenState(1)
    /\ fprev = TokenState(1)
    /\ ftx = NoTx
    /\ fcount = 0

\* Variant that takes the id after the largest committed one.
nextval_max(seq, rows) ==
    IF rows = << >> THEN 1
    ELSE 1 + (CHOOSE m \in { rows[k].id : k \in 1..Len(rows) } :
                  \A k \in 1..Len(rows) : rows[k].id <= m)

\* id = Column(Integer, primary_key=True, autoincrement=True): the flush
\* takes the next value of the table's sequence.
nextval(seq, rows) == seq

\* TransactionService.record in a request session: db.add(tx) and
\* db.flush(); the row has its id and is not committed.
session_record(session, tx, slot) ==
    /\ next_id <= MaxId
    /\ pending' = DictPut(pending, session,
           Append(DictGet(pending, session, << >>),
                  [tx EXCEPT !.slot = slot, !.id = nextval(next_id, ledger)]))
    /\ next_id' = next_id + 1
    /\ UNCHANGED << coreVars, foldVars, dbVars, equityVars, calcVars >>

\* get_db: session.commit() at the end of the request.
session_commit(session) ==
    /\ session \in DOMAIN pending
    /\ ledger' = ledger \o pending[session]
    /\ pending' = [s \in DOMAIN pending \ {session} |-> pending[s]]
    /\ memo' = [set |-> FALSE]
    /\ UNCHANGED << rc, share_classes, foldVars, dbVars, equityVars, next_id, calcVars >>

\* get_db: session.rollback() when the handler raised.
session_rollback(session) ==
    /\ session \in DOMAIN pending
    /\ pending' = [s \in DOMAIN pending \ {session} |-> pending[s]]
    /\ UNCHANGED << coreVars, foldVars, dbVars, equityVars, next_id, calcVars >>

TxnNext ==
    \/ \E session \in Sessions, tx \in TxnInputs, slot \in Slots :
           session_record(session, tx, slot)
    \/ \E session \in Sessions : session_commit(session)
    \/ \E session \in Sessions : session_rollback(session)
    \/ \E target_slot \in Slots : Query(1, target_slot)
    \/ Step
    \/ Return

TxnSpec == TxnInit /\ [][TxnNext]_vars

\* C15: a reconstruct running while sessions record folds exactly the
\* entries with slot <= target that were committed when its query executed:
\* the list it fetched is the selection from those rows, and its state is
\* at every moment the fold of a prefix of that list, all of it on return.
C15_FoldsCommittedRows ==
    rc.pc \in {"fold", "done"} =>
        LET committed == SubSeq(ledger, 1, rc.seen)
            txs == SelectTransactions(committed, rc.token_id, rc.target_slot)
        IN /\ rc.transactions = txs
           /\ rc.state = Replay(TokenState(rc.target_slot), SubSeq(txs, 1, rc.i - 1))
           /\ rc.pc = "done" => rc.i = Len(txs) + 1

\* A call has returned a non-empty fold; while it ran a session committed
\* an entry within its range and another holds an uncommitted one.
C15_ReturnedDuringCommits ==
    /\ rc.pc = "done"
    /\ rc.transactions # << >>
    /\ \E k \in (rc.seen + 1)..Len(ledger) : ledger[k].slot <= rc.target_slot
    /\ \E s \in DOMAIN pending :
           \E k \in 1..Len(pending[s]) : pending[s][k].slot <= rc.target_slot

\* C16: the entries of concurrent record calls, committed or not, have
\* pairwise distinct order keys (slot, id).
C16_DistinctOrderKeys ==
    LET all == ledger \o Flatten(pending)
    IN \A j, k \in 1..Len(all) :
           j # k => << all[j].slot, all[j].id >> # << all[k].slot, all[k].id >>

\* Two sessions hold uncommitted entries of the same slot.
C16_TwoSessionsSameSlot ==
    \E s1, s2 \in DOMAIN pending :
        /\ s1 # s2
        /\ \E j \in 1..Len(pending[s1]), k \in 1..Len(pending[s2]) :
               pending[s1][j].slot = pending[s2][k].slot

(***************************************************************************)
(* RoundSpec: one funding round of token 1, from its creation to its       *)
(* close or cancellation.                                                  *)
(***************************************************************************)

MaxValuation == 2
MaxAmount == 3
MaxInvestments == 2

\* Token 1 with share class 1 and no funding round.
RoundInit ==
    /\ ledger = << >>
    /\ rc = [pc |-> "idle"]
    /\ memo = [set |-> FALSE]
    /\ share_classes = (1 :> [priority |-> 1, preference_multiple |-> 1])
    /\ DbIdle
    /\ fstate = TokenState(1)
    /\ fprev = TokenState(1)
    /\ ftx = NoTx
    /\ fcount = 0

\* POST /funding-rounds
create_funding_round(pre_money_valuation, share_class_id) ==
    /\ funding_round.status = "none"
    /\ share_class_id \in DOMAIN share_classes
    /\ pre_money_valuation > 0
    /\ LET fully_diluted_shares ==
               IF token.total_supply # 0 THEN token.total_supply ELSE 1
           price_per_share == pre_money_valuation \div fully_diluted_shares
       IN funding_round' =
              [ status |-> "pending",
                share_class_id |-> share_class_id,
                pre_money_valuation |-> pre_money_valuation,
                amount_raised |-> 0,
                post_money_valuation |-> pre_money_valuation,
                price_per_share |-> IF price_per_share <= 0 THEN 1 ELSE price_per_share,
                shares_issued |-> 0,
                investments |-> << >> ]
    /\ UNCHANGED << coreVars, foldVars, dbVars, now, vesting_schedules,
                    share_positions, token, txnVars, calcVars >>

\* POST /funding-rounds/{round_id}/investments
add_investment(investor_wallet, amount) ==
    /\ funding_round.status = "pending"
    /\ Len(funding_round.investments) < MaxInvestments
    /\ amount > 0
    /\ LET shares_received == amount \div funding_round.price_per_share
       IN /\ shares_received > 0
          /\ funding_round' = [funding_round EXCEPT
                 !.investments = Append(@,
                     [ investor_wallet |-> investor_wallet,
                       amount |-> amount,
                       shares_received |-> shares_received,
                       price_per_share |-> funding_round.price_per_share,
                       status |-> "pending" ]),
                 !.amount_raised = @ + amount,
                 !.shares_issued = @ + shares_received,
                 !.post_money_valuation =
                     funding_round.pre_money_valuation
                         + funding_round.amount_raised + amount]
    /\ UNCHANGED << coreVars, foldVars, dbVars, now, vesting_schedules,
                    share_positions, token, txnVars, calcVars >>

\* DELETE /funding-rounds/{round_id}/investments/{investment_id}
remove_investment(k) ==
    /\ funding_round.status = "pending"
    /\ k \in 1..Len(funding_round.investments)
    /\ LET investment == funding_round.investments[k]
       IN funding_round' = [funding_round EXCEPT
              !.investments = SubSeq(@, 1, k - 1) \o SubSeq(@, k + 1, Len(@)),
              !.amount_raised = @ - investment.amount,
              !.shares_issued = @ - investment.shares_received,
              !.post_money_valuation =
                  funding_round.pre_money_valuation
                      + funding_round.amount_raised - investment.amount]
    /\ UNCHANGED << coreVars, foldVars, dbVars, now, vesting_schedules,
                    share_positions, token, txnVars, calcVars >>

\* One investment of the closing loop: the wallet row, the position and the
\* balance of the investor.
IssueInvestment(db, investment, share_class_id) ==
    LET key == << investment.investor_wallet, share_class_id >>
    IN [db EXCEPT
          !.wallets = DictPut(@, investment.investor_wallet, "active"),
          !.positions =
              IF key \in DOMAIN @
              THEN [@ EXCEPT
                      ![key].shares = @ + investment.shares_received,
                      ![key].cost_basis = @ + investment.amount]
              ELSE DictPut(@, key, [ shares |-> investment.shares_received,
                                     cost_basis |-> investment.amount ]),
          !.balances = AddToBalance(@, investment.investor_wallet,
                                    investment.shares_received)]

RECURSIVE IssueFrom(_, _, _, _)
IssueFrom(db, investments, k, share_class_id) ==
    IF k > Len(investments) THEN db
    ELSE IssueFrom(IssueInvestment(db, investments[k], share_class_id),
                   investments, k + 1, share_class_id)

\* POST /funding-rounds/{round_id}/close
close_funding_round ==
    /\ funding_round.status = "pending"
    /\ funding_round.investments # << >>
    /\ LET db == IssueFrom([ wallets |-> wallets, positions |-> share_positions,
                             balances |-> current_balances ],
                           funding_round.investments, 1, funding_round.share_class_id)
       IN /\ wallets' = db.wallets
          /\ share_positions' = db.positions
          /\ current_balances' = db.balances
    /\ token' = [token EXCEPT !.total_supply = @ + funding_round.shares_issued]
    /\ funding_round' = [funding_round EXCEPT
           !.status = "completed",
           !.investments = [k \in 1..Len(@) |-> [@[k] EXCEPT !.status = "completed"]]]
    /\ UNCHANGED << coreVars, foldVars, current_slot, snapshots, now,
                    vesting_schedules, txnVars, calcVars >>

\* POST /funding-rounds/{round_id}/cancel
cancel_funding_round ==
    /\ funding_round.status = "pending"
    /\ funding_round' = [funding_round EXCEPT
           !.status = "cancelled",
           !.investments = [k \in 1..Len(@) |-> [@[k] EXCEPT !.status = "cancelled"]]]
    /\ UNCHANGED << coreVars, foldVars, dbVars, now, vesting_schedules,
                    share_positions, token, txnVars, calcVars >>

RoundNext ==
    \/ \E pre_money_valuation \in 1..MaxValuation :
           create_funding_round(pre_money_valuation, 1)
    \/ \E investor_wallet \in Addresses, amount \in 1..MaxAmount :
           add_investment(investor_wallet, amount)
    \/ \E k \in 1..MaxInvestments : remove_investment(k)
    \/ close_funding_round
    \/ cancel_funding_round

RoundSpec == RoundInit /\ [][RoundNext]_vars

\* The investment entry the close of the round would record for an
\* investment.
IsInvestmentEntry(tx, investment) ==
    /\ tx.tx_type = "investment"
    /\ tx.wallet = investment.investor_wallet
    /\ tx.amount = investment.shares_received
    /\ tx.amount_secondary = investment.amount
    /\ tx.share_class_id = funding_round.share_class_id
    /\ tx.priority = share_classes[funding_round.share_class_id].priority
    /\ tx.preference_multiple =
           share_classes[funding_round.share_class_id].preference_multiple

\* C20: the close of a round appends one investment entry per investment
\* of the round, and the reconstructed balance of every wallet grows by the
\* shares the close added to its stored balance.
C20_CloseRecordsInvestments ==
    [][ (funding_round.status = "pending" /\ funding_round'.status = "completed") =>
            /\ Len(ledger') = Len(ledger) + Len(funding_round.investments)
            /\ \A k \in 1..Len(funding_round.investments) :
                   /\ Len(ledger) + k \in DOMAIN ledger'
                   /\ IsInvestmentEntry(ledger'[Len(ledger) + k],
                                        funding_round.investments[k])
            /\ \A w \in Addresses :
                   DictGet(reconstruct_at_slot(ledger', current_slot).balances, w, 0)
                       - DictGet(reconstruct_at_slot(ledger, current_slot).balances, w, 0)
                     = DictGet(current_balances', w, 0) - DictGet(current_balances, w, 0) ]_vars

(***************************************************************************)
(* AllowSpec: the allowlist of token 1 under approve, revoke, bulk-approve *)
(* and the close of a funding round, with the slot lookup of record()      *)
(* succeeding or failing.                                                  *)
(***************************************************************************)

\* POST /allowlist/revoke: the wallet row becomes revoked and a revocation
\* entry is recorded at the slot record() reads.
revoke_wallet(address, slot) ==
    /\ Len(ledger) < MaxLedger
    /\ DictGet(wallets, address, "none") \notin {"none", "revoked"}
    /\ wallets' = DictPut(wallets, address, "revoked")
    /\ ledger' = Append(ledger,
           [UnifiedTransaction(1, slot, "revocation") EXCEPT
               !.id = Len(ledger) + 1,
               !.wallet = address,
               !.data = [previous_status |-> DictGet(wallets, address, "none")]])
    /\ memo' = [set |-> FALSE]
    /\ UNCHANGED << rc, share_classes, foldVars, equityVars, current_slot,
                    current_balances, snapshots, txnVars, calcVars >>

\* The loop of bulk_approve from address k on: every wallet row is made
\* active and an approval entry is recorded for it, at the slot the
\* request's TransactionService read for its first entry.
RECURSIVE BulkApproveFrom(_, _, _, _)
BulkApproveFrom(db, addresses, k, slot) ==
    IF k > Len(addresses) THEN db
    ELSE BulkApproveFrom(
             [ wallets |-> DictPut(db.wallets, addresses[k], "active"),
               ledger |-> Append(db.ledger,
                   [UnifiedTransaction(1, slot, "approval") EXCEPT
                       !.id = Len(db.ledger) + 1,
                       !.wallet = addresses[k],
                       !.data = [previous_status |->
                                    DictGet(db.wallets, addresses[k], "none")]]) ],
             addresses, k + 1, slot)

\* POST /allowlist/bulk-approve
bulk_approve(addresses, slot) ==
    /\ Len(ledger) + Len(addresses) <= MaxLedger
    /\ LET db == BulkApproveFrom([wallets |-> wallets, ledger |-> ledger],
                                 addresses, 1, slot)
       IN /\ wallets' = db.wallets
          /\ ledger' = db.ledger
    /\ memo' = [set |-> FALSE]
    /\ UNCHANGED << rc, share_classes, foldVars, equityVars, current_slot,
                    current_balances, snapshots, txnVars, calcVars >>

\* request.addresses of bulk_approve: one or two addresses.
BulkAddresses ==
    { << a >> : a \in Addresses } \cup { << a, b >> : a, b \in Addresses }

\* Token 1 with share class 1, no wallet row and no funding round.
AllowInit == RoundInit

AllowNext ==
    \/ get_slot
    \/ \E address \in Addresses, slot \in SlotsRead : approve_wallet(address, slot)
    \/ \E address \in Addresses, slot \in SlotsRead : revoke_wallet(address, slot)
    \/ \E addresses \in BulkAddresses, slot \in SlotsRead : bulk_approve(addresses, slot)
    \/ create_funding_round(1, 1)
    \/ \E investor_wallet \in Addresses : add_investment(investor_wallet, 1)
    \/ close_funding_round

AllowSpec == AllowInit /\ [][AllowNext]_vars

\* C39: after any sequence of approve, revoke, bulk-approve and
\* funding-round close operations, also with failing slot lookups, a
\* wallet's stored status is active if and only if the wallet is in
\* approved_wallets of the state reconstructed from the ledger at the
\* latest slot.
C39_AllowlistMatchesLedger ==
    \A address \in Addresses :
        (DictGet(wallets, address, "none") = "active")
            <=> (address \in Reconstructed(ledger, 1, current_slot).approved_wallets)

(***************************************************************************)
(* WaterSpec: calculate_waterfall on a list of positions and an exit       *)
(* amount.                                                                 *)
(***************************************************************************)

\* int(n / d) for integers n and d > 0: float true division, truncated
\* toward zero.
TruncDiv(n, d) ==
    IF n = 0 THEN 0
    ELSE IF n < 0 THEN -FloatTrunc(FloatDiv(-n, d))
    ELSE FloatTrunc(FloatDiv(n, d))

\* WaterfallPosition.preference_amount
preference_amount(pos) == pos.cost_basis * pos.preference_multiple

\* sum(f(p) for p in a list), given the list of the f(p).
SumSeq(values) == SumOver(values, DOMAIN values)

\* sorted(keys)
RECURSIVE Sorted(_)
Sorted(keys) ==
    IF keys = {} THEN << >>
    ELSE LET least == CHOOSE k \in keys : \A o \in keys : k <= o
         IN << least >> \o Sorted(keys \ {least})

\* tiers_map[priority]: the positions of the priority, in list order.
TierPositions(positions, priority) ==
    LET InTier(pos) == pos.priority = priority
    IN SelectSeq(positions, InTier)

WaterfallPayout(pos, payout, payout_source) ==
    [ wallet |-> pos.wallet,
      priority |-> pos.priority,
      shares |-> pos.shares,
      cost_basis |-> pos.cost_basis,
      preference_amount |-> preference_amount(pos),
      preference_multiple |-> pos.preference_multiple,
      payout |-> payout,
      payout_source |-> payout_source ]

\* One iteration of the strict waterfall over the priorities: the tier
\* appended to the result.
StrictTier(tier_positions, priority, remaining) ==
    LET total_preference ==
            SumSeq([k \in DOMAIN tier_positions |-> preference_amount(tier_positions[k])])
    IN IF remaining <= 0
       THEN [ priority |-> priority,
              total_preference |-> total_preference,
              amount_available |-> 0,
              amount_distributed |-> 0,
              fully_satisfied |-> FALSE,
              payouts |-> [k \in DOMAIN tier_positions |->
                              WaterfallPayout(tier_positions[k], 0, "none")] ]
       ELSE IF remaining >= total_preference
       THEN [ priority |-> priority,
              total_preference |-> total_preference,
              amount_available |-> remaining,
              amount_distributed |-> total_preference,
              fully_satisfied |-> TRUE,
              payouts |-> [k \in DOMAIN tier_positions |->
                              WaterfallPayout(tier_positions[k],
                                  preference_amount(tier_positions[k]), "preference")] ]
       ELSE [ priority |-> priority,
              total_preference |-> total_preference,
              amount_available |-> remaining,
              amount_distributed |-> remaining,
              fully_satisfied |-> FALSE,
              payouts |-> [k \in DOMAIN tier_positions |->
                              WaterfallPayout(tier_positions[k],
                                  IF total_preference > 0
                                  THEN ScaleByRatio(remaining,
                                           preference_amount(tier_positions[k]),
                                           total_preference)
                                  ELSE 0,
                                  "partial_preference")] ]

\* Variant that leaves the funds of a partially paid tier to the next tier.
StrictRemaining_keep(tier, remaining) ==
    IF remaining <= 0 THEN remaining
    ELSE IF remaining >= tier.total_preference THEN remaining - tier.total_preference
    ELSE remaining

\* `remaining` after the iteration.
StrictRemaining(tier, remaining) ==
    IF remaining <= 0 THEN remaining
    ELSE IF remaining >= tier.total_preference THEN remaining - tier.total_preference
    ELSE 0

\* for priority in sorted_priorities, in the branch
\* total_all_preferences >= exit_amount.
RECURSIVE StrictWaterfall(_, _, _, _)
StrictWaterfall(positions, priorities, remaining, result_tiers) ==
    IF priorities = << >>
    THEN [ tiers |-> result_tiers, remaining_amount |-> remaining ]
    ELSE LET tier == StrictTier(TierPositions(positions, Head(priorities)),
                                Head(priorities), remaining)
         IN StrictWaterfall(positions, Tail(priorities),
                            StrictRemaining(tier, remaining),
                            Append(result_tiers, tier))

\* final_payouts after the first loop over the positions: per wallet the
\* decision of the last position of the wallet.
Decisions(positions, exit_amount, total_shares) ==
    [ w \in { positions[k].wallet : k \in DOMAIN positions } |->
        LET last == CHOOSE k \in DOMAIN positions :
                        /\ positions[k].wallet = w
                        /\ \A j \in DOMAIN positions : positions[j].wallet = w => j <= k
            pos == positions[last]
            pref_payout == preference_amount(pos)
            convert_payout == IF total_shares > 0
                              THEN TruncDiv(exit_amount * pos.shares, total_shares)
                              ELSE 0
        IN IF pref_payout > 0
           THEN IF convert_payout > pref_payout
                THEN [ payout |-> convert_payout, source |-> "conversion", shares |-> pos.shares ]
                ELSE [ payout |-> pref_payout, source |-> "preference", shares |-> pos.shares ]
           ELSE [ payout |-> 0, source |-> "common", shares |-> pos.shares ] ]

\* final_payouts after the loop that distributes to common: a wallet
\* tagged common holds the amount computed for its last position.
FinalPayouts(positions, exit_amount, total_shares) ==
    LET decided == Decisions(positions, exit_amount, total_shares)
        taken == SumOver([w \in DOMAIN decided |->
                             IF decided[w].source \in {"preference", "conversion"}
                             THEN decided[w].payout ELSE 0], DOMAIN decided)
        remaining_for_common == exit_amount - taken
        common_only_shares ==
            SumSeq([k \in DOMAIN positions |->
                       IF decided[positions[k].wallet].source = "common"
                       THEN positions[k].shares ELSE 0])
    IN [ w \in DOMAIN decided |->
           IF decided[w].source = "common"
           THEN [ payout |-> IF common_only_shares > 0
                             THEN TruncDiv(remaining_for_common * decided[w].shares,
                                           common_only_shares)
                             ELSE 0,
                  source |-> "common" ]
           ELSE [ payout |-> decided[w].payout, source |-> decided[w].source ] ]

\* One result tier of the branch exit_amount > total_all_preferences.
ConversionTier(tier_positions, priority, exit_amount, final_payouts) ==
    LET payouts == [k \in DOMAIN tier_positions |->
                       WaterfallPayout(tier_positions[k],
                           final_payouts[tier_positions[k].wallet].payout,
                           final_payouts[tier_positions[k].wallet].source)]
    IN [ priority |-> priority,
         total_preference |->
             SumSeq([k \in DOMAIN tier_positions |-> preference_amount(tier_positions[k])]),
         amount_available |-> exit_amount,
         amount_distributed |-> SumSeq([k \in DOMAIN payouts |-> payouts[k].payout]),
         fully_satisfied |-> TRUE,
         payouts |-> payouts ]

calculate_waterfall(positions, exit_amount) ==
    LET total_shares == SumSeq([k \in DOMAIN positions |-> positions[k].shares])
        sorted_priorities == Sorted({ positions[k].priority : k \in DOMAIN positions })
        total_all_preferences ==
            SumSeq([k \in DOMAIN positions |-> preference_amount(positions[k])])
    IN IF positions = << >>
       THEN [ exit_amount |-> exit_amount, total_shares |-> 0, tiers |-> << >>,
              remaining_amount |-> exit_amount ]
       ELSE IF total_all_preferences >= exit_amount
       THEN LET strict == StrictWaterfall(positions, sorted_priorities, exit_amount, << >>)
            IN [ exit_amount |-> exit_amount, total_shares |-> total_shares,
                 tiers |-> strict.tiers, remaining_amount |-> strict.remaining_amount ]
       ELSE LET final_payouts == FinalPayouts(positions, exit_amount, total_shares)
                tiers == [ t \in DOMAIN sorted_priorities |->
                             ConversionTier(TierPositions(positions, sorted_priorities[t]),
                                            sorted_priorities[t], exit_amount, final_payouts) ]
            IN [ exit_amount |-> exit_amount, total_shares |-> total_shares,
                 tiers |-> tiers,
                 remaining_amount |->
                     exit_amount - SumSeq([t \in DOMAIN tiers |-> tiers[t].amount_distributed]) ]

MaxShares == 2
MaxCost == 2
MaxExit == 5

\* The (wallet, priority) keys of state.positions for a preferred class
\* (priority 1) and common (priority 99), in two insertion orders: wallet A
\* may hold preferred and common shares, wallet B preferred ones.
PositionKeys ==
    << << "A", 1 >>, << "A", 99 >>, << "B", 1 >> >>

KeyOrders ==
    { PositionKeys,
      [k \in DOMAIN PositionKeys |-> PositionKeys[Len(PositionKeys) + 1 - k]] }

\* What a key holds: nothing, or shares bought at a cost.
Holdings ==
    { [shares |-> 0, cost_basis |-> 0] }
        \cup [ shares : 1..MaxShares, cost_basis : 0..MaxCost ]

\* _get_waterfall_positions: one WaterfallPosition per key with shares > 0,
\* in the order of the keys.
RECURSIVE WaterfallPositions(_, _)
WaterfallPositions(keys, held) ==
    IF keys = << >> THEN << >>
    ELSE LET key == Head(keys)
             rest == WaterfallPositions(Tail(keys), held)
         IN IF held[key].shares > 0
            THEN << [ wallet |-> key[1],
                      priority |-> key[2],
                      shares |-> held[key].shares,
                      cost_basis |-> held[key].cost_basis,
                      preference_multiple |-> 1 ] >> \o rest
            ELSE rest

\* The example of the specification in units of 100 shares and of 1,000:
\* Series A with 500 shares bought for 100,000 at 1x, and 1000 common
\* shares; exits of 80,000 and 300,000.
ExamplePositions ==
    << [ wallet |-> "A", priority |-> 1, shares |-> 5, cost_basis |-> 100,
         preference_multiple |-> 1 ],
       [ wallet |-> "B", priority |-> 99, shares |-> 10, cost_basis |-> 0,
         preference_multiple |-> 1 ] >>

\* Two holders of one tier whose pro-rata shares of 22 are 15 and 7.
RoundingPositions ==
    << [ wallet |-> "A", priority |-> 1, shares |-> 1, cost_basis |-> 30,
         preference_multiple |-> 1 ],
       [ wallet |-> "B", priority |-> 1, shares |-> 1, cost_basis |-> 14,
         preference_multiple |-> 1 ] >>

\* Two preferred holders of one class who decide differently at an exit of
\* 20: A (1 share, preference 10) keeps the preference, B (9 shares,
\* preference 1) converts; with and without a common holder C.
MixedPositions ==
    << [ wallet |-> "A", priority |-> 1, shares |-> 1, cost_basis |-> 10,
         preference_multiple |-> 1 ],
       [ wallet |-> "B", priority |-> 1, shares |-> 9, cost_basis |-> 1,
         preference_multiple |-> 1 ] >>

MixedWithCommon ==
    Append(MixedPositions,
           [ wallet |-> "C", priority |-> 99, shares |-> 1, cost_basis |-> 0,
             preference_multiple |-> 1 ])

WaterfallCalls ==
    { [ op |-> "waterfall", pc |-> "call",
        positions |-> WaterfallPositions(keys, held), exit_amount |-> exit_amount ] :
          keys \in KeyOrders,
          held \in [ { PositionKeys[k] : k \in DOMAIN PositionKeys } -> Holdings ],
          exit_amount \in 0..MaxExit }
      \cup
    { [ op |-> "waterfall", pc |-> "call",
        positions |-> ExamplePositions, exit_amount |-> exit_amount ] :
          exit_amount \in {80, 300} }
      \cup
    { [ op |-> "waterfall", pc |-> "call",
        positions |-> RoundingPositions, exit_amount |-> 22 ] }
      \cup
    { [ op |-> "waterfall", pc |-> "call",
        positions |-> positions, exit_amount |-> 20 ] :
          positions \in {MixedPositions, MixedWithCommon} }

WaterInit ==
    /\ CoreIdle
    /\ fstate = TokenState(1)
    /\ fprev = TokenState(1)
    /\ ftx = NoTx
    /\ fcount = 0

\* POST /simulator/waterfall arrives: the positions are read and the exit
\* amount is validated.
simulate_waterfall ==
    /\ calc.op = "none"
    /\ \E call \in WaterfallCalls :
           /\ call.exit_amount >= 0
           /\ call.positions # << >>
           /\ calc' = call
    /\ UNCHANGED << coreVars, foldVars, dbVars, equityVars, txnVars >>

\* calculate_waterfall returns.
WaterfallReturn ==
    /\ calc.op = "waterfall"
    /\ calc.pc = "call"
    /\ calc' = [ op |-> "waterfall", pc |-> "done",
                 positions |-> calc.positions, exit_amount |-> calc.exit_amount,
                 result |-> calculate_waterfall(calc.positions, calc.exit_amount) ]
    /\ UNCHANGED << coreVars, foldVars, dbVars, equityVars, txnVars >>

WaterNext ==
    \/ simulate_waterfall
    \/ WaterfallReturn

WaterSpec == WaterInit /\ [][WaterNext]_vars

\* A waterfall call has returned.
WaterfallDone == calc.op = "waterfall" /\ calc.pc = "done"

\* All payouts of a result, tier after tier.
AllPayouts(result) ==
    SumSeq([t \in DOMAIN result.tiers |->
               SumSeq([k \in DOMAIN result.tiers[t].payouts |->
                          result.tiers[t].payouts[k].payout])])

\* C21: the payouts of all tiers and remaining_amount add up to
\* exit_amount, in both branches.
C21_WaterfallConservation ==
    WaterfallDone =>
        AllPayouts(calc.result) + calc.result.remaining_amount = calc.exit_amount

\* The sum of the preference amounts of a list of positions.
TotalPreference(positions) ==
    SumSeq([k \in DOMAIN positions |-> preference_amount(positions[k])])

\* The call took the branch total_all_preferences >= exit_amount.
StrictBranch == WaterfallDone /\ TotalPreference(calc.positions) >= calc.exit_amount

\* The funds left for tier t of the result when every tier before it is
\* paid its preference in full.
FundsFor(result, t) ==
    result.exit_amount
        - SumSeq([u \in 1..(t - 1) |-> result.tiers[u].total_preference])

\* C22: when the preferences sum to at least exit_amount, the tiers are in
\* ascending priority; a tier pays something only if every tier before it
\* was fully satisfied; a fully satisfied tier pays each preference; a tier
\* whose funds are short of its preference is marked not fully satisfied
\* and split pro-rata by preference amount (each holder gets its exact
\* share rounded down, or one unit less); every tier after it pays 0.  Exit 80 against a priority-1 preference of 100 pays that
\* tier 80 and common 0.
C22_StrictPriorityOrder ==
    StrictBranch =>
        LET result == calc.result
            tiers == result.tiers
        IN /\ \A t, u \in DOMAIN tiers : t < u => tiers[t].priority < tiers[u].priority
           /\ \A t \in DOMAIN tiers :
                  LET tier == tiers[t]
                      funds == FundsFor(result, t)
                  IN /\ (\E k \in DOMAIN tier.payouts : tier.payouts[k].payout > 0)
                            => \A u \in 1..(t - 1) : tiers[u].fully_satisfied
                     /\ tier.fully_satisfied =>
                            \A k \in DOMAIN tier.payouts :
                                tier.payouts[k].payout = tier.payouts[k].preference_amount
                     /\ ( /\ \A u \in 1..(t - 1) : tiers[u].fully_satisfied
                          /\ funds < tier.total_preference )
                        => /\ ~tier.fully_satisfied
                           /\ \A k \in DOMAIN tier.payouts :
                                  LET share == funds * tier.payouts[k].preference_amount
                                      paid == tier.payouts[k].payout * tier.total_preference
                                  IN share - tier.total_preference <= paid /\ paid <= share
                           /\ \A u \in DOMAIN tiers : u > t =>
                                  \A k \in DOMAIN tiers[u].payouts :
                                      tiers[u].payouts[k].payout = 0
           /\ (calc.positions = ExamplePositions /\ calc.exit_amount = 80) =>
                  /\ tiers[1].payouts[1].payout = 80
                  /\ ~tiers[1].fully_satisfied
                  /\ tiers[2].payouts[1].payout = 0

\* A call paid the first tier in full and the second one in part.
C22_SecondTierPartlyPaid ==
    /\ StrictBranch
    /\ Len(calc.result.tiers) = 2
    /\ calc.result.tiers[1].fully_satisfied
    /\ calc.result.tiers[1].total_preference > 0
    /\ ~calc.result.tiers[2].fully_satisfied
    /\ \E k \in DOMAIN calc.result.tiers[2].payouts :
           calc.result.tiers[2].payouts[k].payout > 0

\* The call took the branch exit_amount > total_all_preferences.
ConversionBranch == WaterfallDone /\ TotalPreference(calc.positions) < calc.exit_amount

\* All payout entries of a result.
PayoutEntries(result) ==
    { << t, k >> \in (DOMAIN result.tiers) \X (1..3) : k \in DOMAIN result.tiers[t].payouts }

\* C23: when exit_amount exceeds the preferences, every holder with a
\* positive preference receives the greater of the preference and
\* floor(exit_amount * shares / total_shares), tagged conversion only when
\* that is strictly greater, and the funds left after these payouts are
\* split pro-rata by shares among the holders without preference.  Exit 300:
\* Series A 100 as preference, common 200.
C23_GreaterOfPreferenceAndConversion ==
    ConversionBranch =>
        LET result == calc.result
            entry(e) == result.tiers[e[1]].payouts[e[2]]
            entries == PayoutEntries(result)
            preferred == { e \in entries : entry(e).preference_amount > 0 }
            common == entries \ preferred
            convert(e) == (calc.exit_amount * entry(e).shares) \div result.total_shares
            left == calc.exit_amount
                       - SumOver([e \in preferred |-> entry(e).payout], preferred)
            common_shares == SumOver([e \in common |-> entry(e).shares], common)
        IN /\ \A e \in preferred :
                  /\ entry(e).payout = Max(entry(e).preference_amount, convert(e))
                  /\ entry(e).payout_source =
                         IF convert(e) > entry(e).preference_amount
                         THEN "conversion" ELSE "preference"
           /\ \A e \in common :
                  /\ entry(e).payout_source = "common"
                  /\ left >= 0 =>
                         entry(e).payout = (left * entry(e).shares) \div common_shares
           /\ (calc.positions = ExamplePositions /\ calc.exit_amount = 300) =>
                  /\ result.tiers[1].payouts[1].payout = 100
                  /\ result.tiers[1].payouts[1].payout_source = "preference"
                  /\ result.tiers[2].payouts[1].payout = 200

\* Every wallet of the call holds one position.
OnePositionPerWallet ==
    \A i, j \in DOMAIN calc.positions :
        calc.positions[i].wallet = calc.positions[j].wallet => i = j

\* C37: for every position list (here: the lists with one position per
\* wallet) and every exit_amount >= 0, every payout of the result is >= 0,
\* remaining_amount is >= 0 and the payouts sum to at most exit_amount,
\* also when preferred holders decide differently between preference and
\* conversion.
C37_PayoutsWithinExit ==
    (WaterfallDone /\ OnePositionPerWallet) =>
        /\ \A e \in PayoutEntries(calc.result) :
               calc.result.tiers[e[1]].payouts[e[2]].payout >= 0
        /\ calc.result.remaining_amount >= 0
        /\ AllPayouts(calc.result) <= calc.exit_amount

\* WaterfallResult.get_payout_by_wallet: per wallet the payouts of all
\* tiers added up.
get_payout_by_wallet(result) ==
    LET entries == PayoutEntries(result)
        entry(e) == result.tiers[e[1]].payouts[e[2]]
    IN [ w \in { entry(e).wallet : e \in entries } |->
           LET own == { e \in entries : entry(e).wallet = w }
           IN SumOver([e \in own |-> entry(e).payout], own) ]

\* The positions of a list, each held by a wallet of its own.
HeldApart(positions) ==
    [ k \in DOMAIN positions |-> [positions[k] EXCEPT !.wallet = << @, k >>] ]

\* C38: when a wallet holds positions in several classes, every position
\* is paid as it is paid when the positions are held by distinct wallets,
\* and the wallet's total in payouts_by_wallet is the sum of the payouts of
\* its positions.
C38_PositionsPaidOnTheirOwn ==
    WaterfallDone =>
        LET result == calc.result
            apart == calculate_waterfall(HeldApart(calc.positions), calc.exit_amount)
            by_wallet == get_payout_by_wallet(result)
        IN /\ \A e \in PayoutEntries(result) :
                  result.tiers[e[1]].payouts[e[2]].payout
                      = apart.tiers[e[1]].payouts[e[2]].payout
           /\ \A k \in DOMAIN calc.positions :
                  by_wallet[calc.positions[k].wallet]
                      = SumOver([e \in PayoutEntries(result) |->
                                    IF result.tiers[e[1]].payouts[e[2]].wallet
                                           = calc.positions[k].wallet
                                    THEN result.tiers[e[1]].payouts[e[2]].payout
                                    ELSE 0], PayoutEntries(result))

(***************************************************************************)
(* VestingSchedule.calculate_vested as a function of time: one row of      *)
(* vesting_schedules is read at later and later instants.                  *)
(***************************************************************************)

\* Durations and cliffs are counted in half intervals, up to MaxHalves and
\* MaxCliff of them; total_amount ranges up to MaxTotal.
MaxHalves == 6
MaxCliff == 2
MaxTotal == 7

\* VestingInterval
VestingInterval == {"minute", "hour", "day", "month"}

\* Half of an interval of the unit, the step between two readings.
HalfInterval(unit) == interval_seconds([interval |-> unit]) \div 2

\* A row of vesting_schedules: active, revoked or terminated.
VestingScheduleRow(unit, cliff, duration, total, status) ==
    [ id |-> 1,
      on_chain_address |-> << "A", 2 * HalfInterval(unit) >>,
      share_class_id |-> None,
      beneficiary |-> "A",
      total_amount |-> total,
      released_amount |-> 0,
      cost_basis |-> 0,
      start_time |-> 2 * HalfInterval(unit),
      cliff_seconds |-> cliff * HalfInterval(unit),
      duration_seconds |-> duration * HalfInterval(unit),
      interval |-> unit,
      intervals_released |-> 0,
      revocable |-> TRUE,
      revoked |-> (status = "revoked"),
      termination_type |-> IF status = "terminated" THEN "standard" ELSE NullString,
      vested_at_termination |-> IF status = "terminated" THEN 0 ELSE None ]

\* The rows read: every unit, cliff < duration, and 100 over 7 intervals.
VestingScheduleRows ==
    { VestingScheduleRow(unit, cliff, duration, total, status) :
          unit \in VestingInterval,
          cliff \in 0..MaxCliff,
          duration \in 1..MaxHalves,
          total \in 0..MaxTotal,
          status \in {"active", "revoked", "terminated"} }
    \cup { VestingScheduleRow(unit, 0, 14, 100, "active") : unit \in VestingInterval }

VestedInit ==
    /\ CoreIdle
    /\ fstate = TokenState(1)
    /\ fprev = TokenState(1)
    /\ ftx = NoTx
    /\ fcount = 0

\* _schedule_to_response(s) of a row, at time 0, before its start_time.
schedule_to_response ==
    /\ calc.op = "none"
    /\ \E schedule \in VestingScheduleRows :
           /\ schedule.cliff_seconds < schedule.duration_seconds
           /\ calc' = [ op |-> "vested", schedule |-> schedule,
                        history |-> << [ current_time |-> 0,
                                         vested |-> calculate_vested(schedule, 0) ] >> ]
    /\ UNCHANGED << coreVars, foldVars, dbVars, equityVars, txnVars >>

\* _schedule_to_response(s) of the same row half an interval later, until
\* one interval after the end of its duration.
schedule_to_response_later ==
    /\ calc.op = "vested"
    /\ LET schedule == calc.schedule
           current_time == calc.history[Len(calc.history)].current_time
                               + HalfInterval(schedule.interval)
       IN /\ current_time <= schedule.start_time + schedule.duration_seconds
                                 + interval_seconds(schedule)
          /\ calc' = [ calc EXCEPT !.history =
                         Append(@, [ current_time |-> current_time,
                                     vested |-> calculate_vested(schedule, current_time) ]) ]
    /\ UNCHANGED << coreVars, foldVars, dbVars, equityVars, txnVars >>

VestedNext == schedule_to_response \/ schedule_to_response_later

VestedSpec == VestedInit /\ [][VestedNext]_vars

\* A reading of an active row is in progress.
ActiveReading ==
    /\ calc.op = "vested"
    /\ ~ calc.schedule.revoked
    /\ calc.schedule.vested_at_termination = None

\* Seconds since start_time at the i-th reading.
ElapsedAt(i) == calc.history[i].current_time - calc.schedule.start_time

\* The i-th reading is taken exactly k intervals after the cliff.
AtInterval(i, k) ==
    ElapsedAt(i) = calc.schedule.cliff_seconds + k * interval_seconds(calc.schedule)

\* C24: for an active schedule nothing is vested at the cliff, the reading
\* at the end of interval k exceeds the reading at the end of interval k-1
\* by total_amount div total_intervals, plus one unit in each of the last
\* total_amount mod total_intervals intervals, and the reading at the end
\* of the last interval is total_amount: the increments sum to it exactly.
C24_IncrementsSumToTotal ==
    ActiveReading =>
        LET schedule == calc.schedule
            N == total_intervals(schedule)
            per == schedule.total_amount \div N
            rem == schedule.total_amount % N
        IN \A i \in DOMAIN calc.history :
               /\ AtInterval(i, 0) => calc.history[i].vested = 0
               /\ \A k \in 1..N :
                      AtInterval(i, k) =>
                          /\ \E j \in DOMAIN calc.history :
                                 /\ AtInterval(j, k - 1)
                                 /\ calc.history[i].vested - calc.history[j].vested
                                        = per + (IF k > N - rem THEN 1 ELSE 0)
                          /\ (k = N => calc.history[i].vested = schedule.total_amount)

\* Witness of C24: a schedule of three intervals whose total_amount leaves
\* a remainder of two has been read at the end of its last interval.
C24_LastIntervalRead ==
    /\ ActiveReading
    /\ total_intervals(calc.schedule) = 3
    /\ calc.schedule.total_amount % 3 = 2
    /\ \E i \in DOMAIN calc.history : AtInterval(i, 3)

\* The schedule of the example: 100 over 7 intervals, no cliff.
IsExample(schedule) ==
    /\ schedule.total_amount = 100
    /\ schedule.cliff_seconds = 0
    /\ schedule.duration_seconds = 7 * interval_seconds(schedule)

\* C25: for a schedule neither terminated nor revoked a reading is 0
\* before the cliff, total_amount from the end of the duration on, and in
\* between amount_per_interval times the whole intervals elapsed plus one
\* unit per elapsed interval among the final remainder intervals (100 over
\* 7 intervals: 42 at interval 3, 70 at 5, 85 at 6, 100 at 7); readings
\* never decrease with time and never exceed total_amount.
C25_VestedByInterval ==
    ActiveReading =>
        LET schedule == calc.schedule
            N == total_intervals(schedule)
            per == schedule.total_amount \div N
            rem == schedule.total_amount % N
            expected(i) ==
                LET intervals_elapsed ==
                        (ElapsedAt(i) - schedule.cliff_seconds)
                            \div interval_seconds(schedule)
                IN per * intervals_elapsed + Max(0, intervals_elapsed - (N - rem))
        IN \A i \in DOMAIN calc.history :
               /\ calc.history[i].vested =
                      ( IF ElapsedAt(i) >= schedule.duration_seconds
                        THEN schedule.total_amount
                        ELSE IF ElapsedAt(i) < schedule.cliff_seconds \/ ElapsedAt(i) < 0
                        THEN 0
                        ELSE expected(i) )
               /\ calc.history[i].vested <= schedule.total_amount
               /\ i > 1 => calc.history[i - 1].vested <= calc.history[i].vested
               /\ IsExample(schedule) =>
                      /\ AtInterval(i, 3) => calc.history[i].vested = 42
                      /\ AtInterval(i, 5) => calc.history[i].vested = 70
                      /\ AtInterval(i, 6) => calc.history[i].vested = 85
                      /\ AtInterval(i, 7) => calc.history[i].vested = 100

\* Witness of C25: the example schedule has been read through its seventh
\* interval.
C25_ExampleRead ==
    /\ ActiveReading
    /\ IsExample(calc.schedule)
    /\ \E i \in DOMAIN calc.history :
           AtInterval(i, 6) /\ calc.history[i].vested = 85
    /\ \E i \in DOMAIN calc.history : AtInterval(i, 7)

(***************************************************************************)
(* calculate_dilution: the hypothetical rounds are priced one after the    *)
(* other on the running share count.  The ownership percentages of the     *)
(* result (rounded floats) are left out; prices, share counts and values   *)
(* are integers.                                                           *)
(***************************************************************************)

\* Largest pre-money valuation and amount raised of a round, and the
\* largest number of rounds of a request.
MaxPreMoney == 3
MaxRaise == 2
MaxRounds == 2

\* total_shares += new_shares
SharesAfterRound(total_shares, new_shares) == total_shares + new_shares

\* price_per_share of a round on total_shares outstanding.
RoundPrice(round_info, total_shares) ==
    LET price_per_share ==
            IF total_shares > 0
            THEN round_info.pre_money_valuation \div total_shares ELSE 1
    IN IF price_per_share <= 0 THEN 1 ELSE price_per_share

\* NewInvestorPosition of a round on total_shares outstanding.
NewInvestorPosition(round_info, total_shares) ==
    [ round_name |-> round_info.name,
      amount_invested |-> round_info.amount_raised,
      shares_received |->
          round_info.amount_raised \div RoundPrice(round_info, total_shares),
      price_per_share |-> RoundPrice(round_info, total_shares) ]

\* for round_info in simulated_rounds: the running totals and the entries
\* after the rounds left.
RECURSIVE ProcessRounds(_, _, _, _)
ProcessRounds(simulated_rounds, total_shares, running_valuation, new_investors) ==
    IF simulated_rounds = << >>
    THEN [ total_shares |-> total_shares,
           running_valuation |-> running_valuation,
           new_investors |-> new_investors ]
    ELSE LET round_info == Head(simulated_rounds)
             investor == NewInvestorPosition(round_info, total_shares)
         IN ProcessRounds(Tail(simulated_rounds),
                          SharesAfterRound(total_shares, investor.shares_received),
                          round_info.pre_money_valuation + round_info.amount_raised,
                          Append(new_investors, investor))

\* DilutedPosition of a holder, without the percentages.
DilutedPosition(holder, price_per_share_before, price_per_share_after) ==
    [ wallet |-> holder.wallet,
      shares_before |-> holder.shares,
      shares_after |-> holder.shares,
      value_before |-> holder.shares * price_per_share_before,
      value_after |-> holder.shares * price_per_share_after ]

calculate_dilution(current_holders, current_valuation, simulated_rounds) ==
    IF current_holders = << >>
    THEN [ rounds |-> simulated_rounds,
           shares_before |-> 0,
           valuation_before |-> current_valuation,
           price_per_share_before |-> 0,
           shares_after |-> 0,
           valuation_after |-> current_valuation,
           price_per_share_after |-> 0,
           existing_holders |-> << >>,
           new_investors |-> << >> ]
    ELSE LET shares_before ==
                 SumSeq([i \in DOMAIN current_holders |-> current_holders[i].shares])
             price_per_share_before ==
                 IF shares_before > 0 THEN current_valuation \div shares_before ELSE 0
             after == ProcessRounds(simulated_rounds, shares_before,
                                    current_valuation, << >>)
             price_per_share_after ==
                 IF after.total_shares > 0
                 THEN after.running_valuation \div after.total_shares ELSE 0
         IN [ rounds |-> simulated_rounds,
              shares_before |-> shares_before,
              valuation_before |-> current_valuation,
              price_per_share_before |-> price_per_share_before,
              shares_after |-> after.total_shares,
              valuation_after |-> after.running_valuation,
              price_per_share_after |-> price_per_share_after,
              existing_holders |->
                  [i \in DOMAIN current_holders |->
                      DilutedPosition(current_holders[i], price_per_share_before,
                                      price_per_share_after)],
              new_investors |-> after.new_investors ]

\* CurrentHolder, without ownership_pct.
CurrentHolder(wallet, shares) == [ wallet |-> wallet, shares |-> shares ]

\* Holder lists: none, one holder without shares, one and two holders.
HolderLists ==
    { << >>,
      << CurrentHolder("A", 0) >>,
      << CurrentHolder("A", 1) >>,
      << CurrentHolder("A", 2), CurrentHolder("B", 1) >> }

\* SimulatedRound lists of up to MaxRounds rounds, named by position.
SimulatedRounds ==
    UNION { [ 1..n -> (0..MaxPreMoney) \X (0..MaxRaise) ] : n \in 0..MaxRounds }

RoundList(terms) ==
    [ i \in DOMAIN terms |->
        [ name |-> i, pre_money_valuation |-> terms[i][1],
          amount_raised |-> terms[i][2] ] ]

\* token.current_valuation
CurrentValuation == 2

DilutionInit ==
    /\ CoreIdle
    /\ fstate = TokenState(1)
    /\ fprev = TokenState(1)
    /\ ftx = NoTx
    /\ fcount = 0

\* POST /simulator/dilution: the rounds are validated, the holders are the
\* positions with shares, and calculate_dilution is called.
simulate_dilution ==
    /\ calc.op = "none"
    /\ \E current_holders \in HolderLists, terms \in SimulatedRounds :
           /\ CurrentValuation > 0
           /\ terms # << >>
           /\ \A i \in DOMAIN terms : terms[i][1] > 0 /\ terms[i][2] > 0
           /\ current_holders # << >>
           /\ \A i \in DOMAIN current_holders : current_holders[i].shares > 0
           /\ calc' = [ op |-> "dilution", pc |-> "call",
                        caller |-> "simulate_dilution",
                        current_holders |-> current_holders,
                        current_valuation |-> CurrentValuation,
                        simulated_rounds |-> RoundList(terms) ]
    /\ UNCHANGED << coreVars, foldVars, dbVars, equityVars, txnVars >>

\* calculate_dilution called as a function of the services package, on any
\* holder list and any rounds.
dilution_call ==
    /\ calc.op = "none"
    /\ \E current_holders \in HolderLists, terms \in SimulatedRounds :
           calc' = [ op |-> "dilution", pc |-> "call",
                     caller |-> "services",
                     current_holders |-> current_holders,
                     current_valuation |-> CurrentValuation,
                     simulated_rounds |-> RoundList(terms) ]
    /\ UNCHANGED << coreVars, foldVars, dbVars, equityVars, txnVars >>

\* calculate_dilution returns.
DilutionReturn ==
    /\ calc.op = "dilution" /\ calc.pc = "call"
    /\ calc' = [ calc EXCEPT !.pc = "done" ] @@
               [ result |-> calculate_dilution(calc.current_holders,
                                               calc.current_valuation,
                                               calc.simulated_rounds) ]
    /\ UNCHANGED << coreVars, foldVars, dbVars, equityVars, txnVars >>

DilutionNext == simulate_dilution \/ dilution_call \/ DilutionReturn

DilutionSpec == DilutionInit /\ [][DilutionNext]_vars

DilutionDone == calc.op = "dilution" /\ calc.pc = "done"

\* Shares outstanding before round i: the holders' shares and the shares
\* received in the rounds before it.
OutstandingBefore(i) ==
    calc.result.shares_before
        + SumSeq([j \in 1..(i - 1) |-> calc.result.new_investors[j].shares_received])

\* Round i has its new-investor entry, priced on the shares outstanding
\* before it, with a price of at least 1.
RoundEntry(i) ==
    LET round_info == calc.simulated_rounds[i]
        investor == calc.result.new_investors[i]
        price == IF OutstandingBefore(i) > 0
                 THEN Max(1, round_info.pre_money_valuation \div OutstandingBefore(i))
                 ELSE 1
    IN /\ investor.round_name = round_info.name
       /\ investor.amount_invested = round_info.amount_raised
       /\ investor.price_per_share = price
       /\ investor.shares_received = round_info.amount_raised \div price

\* One entry per round, in the order given, and the final share count.
EntryPerRound ==
    /\ Len(calc.result.new_investors) = Len(calc.simulated_rounds)
    /\ \A i \in DOMAIN calc.simulated_rounds : RoundEntry(i)
    /\ calc.result.shares_after = OutstandingBefore(Len(calc.simulated_rounds) + 1)

\* C30: the rounds are processed in the order given and, for every holder
\* list (also one without shares outstanding), every round has one
\* new-investor entry of price max(1, floor(pre_money_valuation / shares
\* outstanding before the round)) and floor(amount_raised / price) shares,
\* the shares outstanding growing by the shares received.
C30_EntryPerRoundAnyHolders == DilutionDone => EntryPerRound

\* For a non-empty holder list every round has its entry; for the empty
\* one no round is processed.
EntryPerRoundOfHolders ==
    DilutionDone =>
        IF calc.current_holders # << >> THEN EntryPerRound
        ELSE calc.result.new_investors = << >> /\ calc.result.shares_after = 0

====
